---- MODULE Spec2Model ----
(***************************************************************************)
(* Sakai monitoring bot: the dedup store (db/notification_store.py), the   *)
(* item models and their fingerprints (models.py), the exam detector       *)
(* (scrapers/exams.py) and the orchestrator (main.py).                     *)
(*                                                                         *)
(* Text is a sequence of one-character strings, so that substring tests,   *)
(* lower-casing, f-string concatenation and the regular expressions work   *)
(* on characters as they do in the source.  An Optional value is <<>> for  *)
(* None and <<v>> for a value v.                                           *)
(***************************************************************************)
EXTENDS Integers, Sequences, FiniteSets, TLC

(* ------------------------------ bounds -------------------------------- *)
\* Monitoring runs started in one behaviour.
MaxRuns == 2
\* Largest value of the wall clock (in days) in the store-level specification.
MaxClock == 2
\* Largest age (in days) handed to clear_old_records.
MaxDays == 1
\* Failing external calls (login, course request, store lookup, store write,
\* message send) in one behaviour of the orchestrator.
MaxFaults == 2
\* Monitoring runs started in one behaviour of the three-run scenario.
E2ERuns == 3
\* Monitoring runs started in one behaviour over the portal of two courses.
CourseRuns == 1

(* ------------------------------- text --------------------------------- *)
UpperChars == <<"A", "B", "C", "D", "E", "F", "G", "H", "I", "J", "K", "L", "M", "N", "O", "P", "Q", "R", "S", "T", "U", "V", "W", "X", "Y", "Z">>
LowerChars == <<"a", "b", "c", "d", "e", "f", "g", "h", "i", "j", "k", "l", "m", "n", "o", "p", "q", "r", "s", "t", "u", "v", "w", "x", "y", "z">>
Digits == <<"0", "1", "2", "3", "4", "5", "6", "7", "8", "9">>

\* str.lower() on one character
LowerChar(c) ==
    IF \E i \in 1..Len(UpperChars) : UpperChars[i] = c
    THEN LowerChars[CHOOSE i \in 1..Len(UpperChars) : UpperChars[i] = c]
    ELSE c

\* str.lower()
Lower(text) == [i \in 1..Len(text) |-> LowerChar(text[i])]

\* Python's `sub in text`
Contains(sub, text) ==
    \E i \in 0..(Len(text) - Len(sub)) : SubSeq(text, i + 1, i + Len(sub)) = sub

\* the character at position i, "" past the end of the text
At(text, i) == IF i >= 1 /\ i <= Len(text) THEN text[i] ELSE ""

IsDigit(c) == \E i \in 1..Len(Digits) : Digits[i] = c
DigitVal(c) == (CHOOSE i \in 1..Len(Digits) : Digits[i] = c) - 1
\* the regular expressions' \s
IsSpace(c) == c \in {" ", "\t", "\n", "\r"}

\* text[i..] starts with word
StartsAt(text, i, word) ==
    /\ i >= 1
    /\ i + Len(word) - 1 <= Len(text)
    /\ SubSeq(text, i, i + Len(word) - 1) = word

\* number of whitespace characters from position i on (the greedy \s*)
SpaceRun(text, i) ==
    CHOOSE n \in 0..Len(text) :
        /\ ~IsSpace(At(text, i + n))
        /\ \A m \in 0..(n - 1) : IsSpace(At(text, i + m))

\* number of digits from position i on
DigitRun(text, i) ==
    CHOOSE n \in 0..Len(text) :
        /\ ~IsDigit(At(text, i + n))
        /\ \A m \in 0..(n - 1) : IsDigit(At(text, i + m))

\* str.strip()
RECURSIVE Strip(_)
Strip(text) ==
    IF text = <<>> THEN text
    ELSE IF IsSpace(text[1]) THEN Strip(Tail(text))
    ELSE IF IsSpace(text[Len(text)]) THEN Strip(SubSeq(text, 1, Len(text) - 1))
    ELSE text

\* str(n) for a natural number
RECURSIVE NatStr(_)
NatStr(n) == IF n < 10 THEN <<Digits[n + 1]>> ELSE NatStr(n \div 10) \o <<Digits[(n % 10) + 1]>>

\* the value of a digit string
RECURSIVE NatVal(_)
NatVal(ds) == IF ds = <<>> THEN 0 ELSE 10 * NatVal(SubSeq(ds, 1, Len(ds) - 1)) + DigitVal(ds[Len(ds)])

K_None == <<"N", "o", "n", "e">>
\* str() of an Optional text
OptStr(o) == IF o = <<>> THEN K_None ELSE o[1]
\* str() of an Optional day number
OptNatStr(o) == IF o = <<>> THEN K_None ELSE NatStr(o[1])

(* --------------------------- models.py -------------------------------- *)
K_announcement == <<"a", "n", "n", "o", "u", "n", "c", "e", "m", "e", "n", "t", ":">>
K_assignment == <<"a", "s", "s", "i", "g", "n", "m", "e", "n", "t", ":">>
K_exam == <<"e", "x", "a", "m", ":">>
K_ann == <<"a", "n", "n", "-">>
Bar == <<"|">>

\* AssignmentStatus values
V_not_started == <<"n", "o", "t", "_", "s", "t", "a", "r", "t", "e", "d">>
V_submitted == <<"s", "u", "b", "m", "i", "t", "t", "e", "d">>
V_graded == <<"g", "r", "a", "d", "e", "d">>
V_late == <<"l", "a", "t", "e">>
V_closed == <<"c", "l", "o", "s", "e", "d">>
V_returned == <<"r", "e", "t", "u", "r", "n", "e", "d">>

Announcement(id, course_code, title, content) ==
    [kind |-> "announcement", id |-> id, course_code |-> course_code,
     title |-> title, content |-> content]

Assignment(id, course_code, title, due_date, close_date, status) ==
    [kind |-> "assignment", id |-> id, course_code |-> course_code,
     title |-> title, due_date |-> due_date, close_date |-> close_date,
     status |-> status]

Exam(id, course_code, title, exam_type, exam_date, exam_time, location, source_id) ==
    [kind |-> "exam", id |-> id, course_code |-> course_code, title |-> title,
     exam_type |-> exam_type, exam_date |-> exam_date, exam_time |-> exam_time,
     location |-> location, source_id |-> source_id]

\* str(datetime) of a parsed exam date, None when absent
OptDateStr(o) ==
    IF o = <<>> THEN K_None
    ELSE NatStr(o[1].year) \o <<"-">> \o NatStr(o[1].month) \o <<"-">> \o NatStr(o[1].day)

\* item.notification_type
NotificationType(item) == item.kind

\* item.dedup_key: f"<kind>:{self.id}"
DedupKey(item) ==
    CASE item.kind = "announcement" -> K_announcement \o item.id
      [] item.kind = "assignment"   -> K_assignment \o item.id
      [] item.kind = "exam"         -> K_exam \o item.id

\* a content_str that leaves out everything but the title
ContentStrTitleOnly(item) == item.title

\* a content_str whose exam case leaves out the exam date
ContentStrNoExamDate(item) ==
    CASE item.kind = "announcement" -> item.title \o Bar \o item.content
      [] item.kind = "assignment"   ->
            item.title \o Bar \o OptNatStr(item.due_date) \o Bar \o item.status
      [] item.kind = "exam"         -> item.title \o Bar \o OptStr(item.exam_time)

\* the content_str each content_hash digests
ContentStr(item) ==
    CASE item.kind = "announcement" -> item.title \o Bar \o item.content
      [] item.kind = "assignment"   ->
            item.title \o Bar \o OptNatStr(item.due_date) \o Bar \o item.status
      [] item.kind = "exam"         ->
            item.title \o Bar \o OptDateStr(item.exam_date) \o Bar \o OptStr(item.exam_time)

\* sha256(s.encode()).hexdigest()[:16]: the digest is represented by the
\* string it digests (deterministic, collisions of the digest left out)
Sha256Hex16(s) == [sha |-> s]

\* item.content_hash
ContentHash(item) == Sha256Hex16(ContentStr(item))

(* ------------------------ scrapers/exams.py --------------------------- *)
EXAM_KEYWORDS ==
    << <<"e", "x", "a", "m">>,
       <<"e", "x", "a", "m", "i", "n", "a", "t", "i", "o", "n">>,
       <<"m", "i", "d", "t", "e", "r", "m">>,
       <<"m", "i", "d", "-", "t", "e", "r", "m">>,
       <<"m", "i", "d", " ", "t", "e", "r", "m">>,
       <<"f", "i", "n", "a", "l">>,
       <<"f", "i", "n", "a", "l", "s">>,
       <<"q", "u", "i", "z">>,
       <<"q", "u", "i", "z", "z">>,
       <<"t", "e", "s", "t">>,
       <<"a", "s", "s", "e", "s", "s", "m", "e", "n", "t">>,
       <<"p", "r", "a", "c", "t", "i", "c", "a", "l">>,
       <<"l", "a", "b", " ", "e", "x", "a", "m">>,
       <<"o", "r", "a", "l", " ", "e", "x", "a", "m">>,
       <<"v", "i", "v", "a">>,
       <<"d", "e", "f", "e", "n", "s", "e">>,
       <<"e", "n", "d", " ", "o", "f", " ", "s", "e", "m", "e", "s", "t", "e", "r">>,
       <<"e", "n", "d", "-", "o", "f", "-", "s", "e", "m", "e", "s", "t", "e", "r">>,
       <<"e", "o", "s", " ", "e", "x", "a", "m">>,
       <<"c", "o", "n", "t", "i", "n", "u", "o", "u", "s", " ", "a", "s", "s", "e", "s", "s", "m", "e", "n", "t">>,
       <<"c", "a", " ", "t", "e", "s", "t">>,
       <<"c", "a", " ", "e", "x", "a", "m">> >>

\* the month names of DATE_PATTERNS[0], lower-cased (the search ignores case)
MonthNames ==
    << <<"j", "a", "n", "u", "a", "r", "y">>,
       <<"f", "e", "b", "r", "u", "a", "r", "y">>,
       <<"m", "a", "r", "c", "h">>,
       <<"a", "p", "r", "i", "l">>,
       <<"m", "a", "y">>,
       <<"j", "u", "n", "e">>,
       <<"j", "u", "l", "y">>,
       <<"a", "u", "g", "u", "s", "t">>,
       <<"s", "e", "p", "t", "e", "m", "b", "e", "r">>,
       <<"o", "c", "t", "o", "b", "e", "r">>,
       <<"n", "o", "v", "e", "m", "b", "e", "r">>,
       <<"d", "e", "c", "e", "m", "b", "e", "r">> >>

\* _contains_exam_keywords
ContainsExamKeywords(text) ==
    \E k \in 1..Len(EXAM_KEYWORDS) : Contains(EXAM_KEYWORDS[k], text)

\* a classification that looks for "quiz" before "midterm" and "final"
DetermineExamTypeQuizFirst(text) ==
    IF Contains(<<"q", "u", "i", "z">>, text) THEN "quiz"
    ELSE IF Contains(<<"m", "i", "d", "t", "e", "r", "m">>, text) THEN "midterm"
    ELSE IF Contains(<<"f", "i", "n", "a", "l">>, text) THEN "final"
    ELSE "exam"

\* _determine_exam_type
DetermineExamType(text) ==
    IF Contains(<<"m", "i", "d", "t", "e", "r", "m">>, text) \/ Contains(<<"m", "i", "d", "-", "t", "e", "r", "m">>, text)
          \/ Contains(<<"m", "i", "d", " ", "t", "e", "r", "m">>, text)
    THEN "midterm"
    ELSE IF Contains(<<"f", "i", "n", "a", "l">>, text) THEN "final"
    ELSE IF Contains(<<"q", "u", "i", "z">>, text) THEN "quiz"
    ELSE IF Contains(<<"p", "r", "a", "c", "t", "i", "c", "a", "l">>, text) \/ Contains(<<"l", "a", "b", " ", "e", "x", "a", "m">>, text)
    THEN "practical"
    ELSE IF Contains(<<"o", "r", "a", "l">>, text) \/ Contains(<<"v", "i", "v", "a">>, text) THEN "oral"
    ELSE IF Contains(<<"c", "o", "n", "t", "i", "n", "u", "o", "u", "s", " ", "a", "s", "s", "e", "s", "s", "m", "e", "n", "t">>, text) \/ Contains(<<"c", "a", " ", "t", "e", "s", "t">>, text)
    THEN "continuous_assessment"
    ELSE "exam"

\* the least index of a sequence of match results (<<>> or <<m>>) that holds
\* a match, 0 when there is none: re.search takes the leftmost match
FirstMatch(matches) ==
    IF \E i \in 1..Len(matches) : matches[i] # <<>>
    THEN CHOOSE i \in 1..Len(matches) :
            /\ matches[i] # <<>>
            /\ \A k \in 1..(i - 1) : matches[k] = <<>>
    ELSE 0

\* the same for a sequence of match ends, where 0 stands for no match
FirstEnd(ends) ==
    IF \E i \in 1..Len(ends) : ends[i] # 0
    THEN CHOOSE i \in 1..Len(ends) :
            /\ ends[i] # 0
            /\ \A k \in 1..(i - 1) : ends[k] = 0
    ELSE 0

\* (?:am|pm|AM|PM) at position i
AmPmAt(text, i) ==
    \/ StartsAt(text, i, <<"a", "m">>) \/ StartsAt(text, i, <<"p", "m">>)
    \/ StartsAt(text, i, <<"A", "M">>) \/ StartsAt(text, i, <<"P", "M">>)

\* \s*(?:am|pm|AM|PM)? from position e on: the position after it
TimeSuffixEnd(text, e) ==
    IF AmPmAt(text, e + SpaceRun(text, e)) THEN e + SpaceRun(text, e) + 2
    ELSE e + SpaceRun(text, e)

\* :\d{2}\s*(?:am|pm|AM|PM)? after h hour digits at position i
TimeMinutesEnd(text, i, h) ==
    IF h = 0 \/ ~IsDigit(At(text, i + h + 1)) \/ ~IsDigit(At(text, i + h + 2)) THEN 0
    ELSE TimeSuffixEnd(text, i + h + 3)

\* TIME_PATTERNS[0] = \d{1,2}:\d{2}\s*(?:am|pm|AM|PM)? matched at position i:
\* the position after the match, 0 when there is none
TimeColonEnd(text, i) ==
    TimeMinutesEnd(text, i,
        IF IsDigit(At(text, i)) /\ IsDigit(At(text, i + 1)) /\ At(text, i + 2) = ":" THEN 2
        ELSE IF IsDigit(At(text, i)) /\ At(text, i + 1) = ":" THEN 1 ELSE 0)

\* \s*(?:am|pm|AM|PM) after h hour digits at position i
TimeAmPmTail(text, i, h) ==
    IF h # 0 /\ AmPmAt(text, i + h + SpaceRun(text, i + h))
    THEN i + h + SpaceRun(text, i + h) + 2
    ELSE 0

\* TIME_PATTERNS[1] = \d{1,2}\s*(?:am|pm|AM|PM) matched at position i
TimeAmPmEnd(text, i) ==
    TimeAmPmTail(text, i,
        IF IsDigit(At(text, i)) /\ IsDigit(At(text, i + 1)) THEN 2
        ELSE IF IsDigit(At(text, i)) THEN 1 ELSE 0)

\* match.group(0).strip() of the leftmost match, None without a match;
\* ends[i] is the position after the match at i
MatchedText(text, ends) ==
    IF FirstEnd(ends) = 0 THEN <<>>
    ELSE <<Strip(SubSeq(text, FirstEnd(ends), ends[FirstEnd(ends)] - 1))>>

\* _extract_exam_time: the first pattern that matches anywhere
ExtractExamTime(text) ==
    IF text = <<>> THEN <<>>
    ELSE IF FirstEnd([i \in 1..Len(text) |-> TimeColonEnd(text, i)]) # 0
    THEN MatchedText(text, [i \in 1..Len(text) |-> TimeColonEnd(text, i)])
    ELSE MatchedText(text, [i \in 1..Len(text) |-> TimeAmPmEnd(text, i)])

\* the month (1..12) whose name, long or abbreviated to three letters, starts
\* at position i of the lower-cased text; 0 when none does
MonthAt(low, i) ==
    IF \E m \in 1..12 : StartsAt(low, i, SubSeq(MonthNames[m], 1, 3))
    THEN CHOOSE m \in 1..12 : StartsAt(low, i, SubSeq(MonthNames[m], 1, 3))
    ELSE 0

\* \d{4} at position q: the position after it, 0 on failure
DateYearEnd(text, q) == IF \A d \in 0..3 : IsDigit(At(text, q + d)) THEN q + 4 ELSE 0

\* \s*\d{4} from position q on
DateSpaceYearEnd(text, q) == DateYearEnd(text, q + SpaceRun(text, q))

\* ,?\s*\d{4} from position q on
DateCommaEnd(text, q) == DateSpaceYearEnd(text, IF At(text, q) = "," THEN q + 1 ELSE q)

\* (?:st|nd|rd|th)?,?\s*\d{4} from position q on: the position after it, 0 on failure
DateTailEnd(text, low, q) ==
    DateCommaEnd(text,
        IF \/ StartsAt(low, q, <<"s", "t">>) \/ StartsAt(low, q, <<"n", "d">>)
           \/ StartsAt(low, q, <<"r", "d">>) \/ StartsAt(low, q, <<"t", "h">>)
        THEN q + 2 ELSE q)

\* the match of DATE_PATTERNS[0] that ends before position e, its day being
\* the n digits at position p
DateNameResult(text, m, p, n, e) ==
    [end |-> e, month |-> m, day |-> NatVal(SubSeq(text, p, p + n - 1)),
     year |-> NatVal(SubSeq(text, e - 4, e - 1))]

\* \d{1,2}(?:st|nd|rd|th)?,?\s*\d{4} at position p: two digits are tried first
DateNameDay(text, low, m, p) ==
    IF IsDigit(At(text, p)) /\ IsDigit(At(text, p + 1)) /\ DateTailEnd(text, low, p + 2) # 0
    THEN <<DateNameResult(text, m, p, 2, DateTailEnd(text, low, p + 2))>>
    ELSE IF IsDigit(At(text, p)) /\ DateTailEnd(text, low, p + 1) # 0
    THEN <<DateNameResult(text, m, p, 1, DateTailEnd(text, low, p + 1))>>
    ELSE <<>>

\* \s+ and the rest of DATE_PATTERNS[0] at position q, after the name of month m
DateNameSpace(text, low, m, q) ==
    IF SpaceRun(text, q) = 0 THEN <<>>
    ELSE DateNameDay(text, low, m, q + SpaceRun(text, q))

\* DATE_PATTERNS[0] at position i, where the name of month m starts (0: none)
DateNameMonth(text, low, i, m) ==
    IF m = 0 THEN <<>>
    ELSE DateNameSpace(text, low, m,
            i + (IF StartsAt(low, i, MonthNames[m]) THEN Len(MonthNames[m]) ELSE 3))

\* DATE_PATTERNS[0] (month name, day, year) matched at position i:
\* <<>> or <<[end, month, day, year]>>
DateNameMatch(text, i) == DateNameMonth(text, Lower(text), i, MonthAt(Lower(text), i))

\* \d{1,2}[/-] at position i: the number of digits, 0 on failure
NumSepAt(text, i) ==
    IF IsDigit(At(text, i)) /\ IsDigit(At(text, i + 1)) /\ At(text, i + 2) \in {"/", "-"} THEN 2
    ELSE IF IsDigit(At(text, i)) /\ At(text, i + 1) \in {"/", "-"} THEN 1
    ELSE 0

\* \d{2,4} at position k, after a and b digits at positions i and j
DateNumYear(text, i, a, j, b, k, c) ==
    IF c < 2 THEN <<>>
    ELSE <<[end |-> k + c, first |-> NatVal(SubSeq(text, i, i + a - 1)),
            second |-> NatVal(SubSeq(text, j, j + b - 1)),
            third |-> NatVal(SubSeq(text, k, k + c - 1)), digits |-> c]>>

\* [/-]\d{2,4} after the second number, b digits at position j
DateNumThird(text, i, a, j, b) ==
    IF b = 0 THEN <<>>
    ELSE DateNumYear(text, i, a, j, b, j + b + 1,
                     IF DigitRun(text, j + b + 1) > 4 THEN 4 ELSE DigitRun(text, j + b + 1))

\* \d{1,2}[/-]\d{2,4} after the first number, a digits at position i
DateNumSecond(text, i, a) ==
    IF a = 0 THEN <<>> ELSE DateNumThird(text, i, a, i + a + 1, NumSepAt(text, i + a + 1))

\* DATE_PATTERNS[1] = \d{1,2}[/-]\d{1,2}[/-]\d{2,4} matched at position i:
\* <<>> or <<[end, first, second, third, digits]>>
DateNumMatch(text, i) == DateNumSecond(text, i, NumSepAt(text, i))

DaysInMonth(year, month) ==
    IF month \in {4, 6, 9, 11} THEN 30
    ELSE IF month = 2
    THEN (IF (year % 4 = 0 /\ year % 100 # 0) \/ year % 400 = 0 THEN 29 ELSE 28)
    ELSE 31

\* datetime(year, month, day), None when that is no calendar date (ValueError)
MakeDate(year, month, day) ==
    IF year >= 1 /\ month \in 1..12 /\ day >= 1 /\ day <= DaysInMonth(year, month)
    THEN <<[year |-> year, month |-> month, day |-> day]>>
    ELSE <<>>

\* the year dateutil reads from the last number: two digits are taken in the
\* century around the present
YearOf(n, digits) == IF digits = 2 THEN (IF n < 77 THEN 2000 + n ELSE 1900 + n) ELSE n

\* parse_date on a DATE_PATTERNS[0] match
ParseNameDate(m) == MakeDate(m.year, m.month, m.day)

\* parse_date on a DATE_PATTERNS[1] match: dateutil reads month/day/year and
\* swaps to day/month when the first number can be no month
ParseNumDate(m) ==
    IF m.first <= 12 THEN MakeDate(YearOf(m.third, m.digits), m.first, m.second)
    ELSE IF m.second <= 12 THEN MakeDate(YearOf(m.third, m.digits), m.second, m.first)
    ELSE <<>>

\* the leftmost DATE_PATTERNS[0] match handed to parse_date
ExtractNameDate(matches) == ParseNameDate(matches[FirstMatch(matches)][1])

\* the leftmost DATE_PATTERNS[1] match handed to parse_date, None without one
ExtractNumDate(matches) ==
    IF FirstMatch(matches) = 0 THEN <<>>
    ELSE ParseNumDate(matches[FirstMatch(matches)][1])

\* _extract_exam_date: the first pattern that matches anywhere
ExtractExamDate(text) ==
    IF text = <<>> THEN <<>>
    ELSE IF FirstMatch([i \in 1..Len(text) |-> DateNameMatch(text, i)]) # 0
    THEN ExtractNameDate([i \in 1..Len(text) |-> DateNameMatch(text, i)])
    ELSE ExtractNumDate([i \in 1..Len(text) |-> DateNumMatch(text, i)])

\* the label of the location pattern that starts at position i of the
\* lower-cased text: its length, 0 when none does
LocationLabelAt(low, i) ==
    IF StartsAt(low, i, <<"v", "e", "n", "u", "e">>) THEN 5
    ELSE IF StartsAt(low, i, <<"l", "o", "c", "a", "t", "i", "o", "n">>) THEN 8
    ELSE IF StartsAt(low, i, <<"r", "o", "o", "m">>) THEN 4
    ELSE IF StartsAt(low, i, <<"h", "a", "l", "l">>) THEN 4
    ELSE IF StartsAt(low, i, <<"l", "a", "b">>) THEN 3
    ELSE 0

\* a character of [\s:]
IsLocationSep(c) == IsSpace(c) \/ c = ":"

\* a character of [^\n,.]
IsLocationChar(c) == c # "" /\ c \notin {"\n", ",", "."}

\* the number of [\s:] characters from position p on
LocationSepRun(text, p) ==
    CHOOSE n \in 0..Len(text) :
        /\ ~IsLocationSep(At(text, p + n))
        /\ \A k \in 0..(n - 1) : IsLocationSep(At(text, p + k))

\* ([^\n,.]+) from position s on, greedy
LocationGroup(text, s) ==
    SubSeq(text, s, s + (CHOOSE n \in 1..Len(text) :
                            /\ ~IsLocationChar(At(text, s + n))
                            /\ \A j \in 0..(n - 1) : IsLocationChar(At(text, s + j))) - 1)

\* the positions where group 1 can start: [\s:]+ is greedy and gives its
\* characters back one by one, keeping at least one
LocationStarts(text, p, run) == {s \in (p + 1)..(p + run) : IsLocationChar(At(text, s))}

\* [\s:]+([^\n,.]+) at position p, after the label
LocationAfterLabel(text, p, run) ==
    IF LocationStarts(text, p, run) = {} THEN <<>>
    ELSE <<LocationGroup(text, CHOOSE x \in LocationStarts(text, p, run) :
                                  \A y \in LocationStarts(text, p, run) : y <= x)>>

\* the location pattern at position i, where a label of length len starts
LocationLabelled(text, i, len) ==
    IF len = 0 THEN <<>>
    ELSE LocationAfterLabel(text, i + len, LocationSepRun(text, i + len))

\* (?:venue|location|room|hall|lab)[\s:]+([^\n,.]+) matched at position i:
\* <<>> or <<group 1>>
LocationMatch(text, i) == LocationLabelled(text, i, LocationLabelAt(Lower(text), i))

\* match.group(1).strip() of the leftmost match, None without a match
LocationText(matches) ==
    IF FirstMatch(matches) = 0 THEN <<>>
    ELSE <<Strip(matches[FirstMatch(matches)][1])>>

\* _extract_location
ExtractLocation(text) ==
    IF text = <<>> THEN <<>>
    ELSE LocationText([i \in 1..Len(text) |-> LocationMatch(text, i)])

\* a detection that gives up on an announcement whose date it cannot extract
DetectRequiresDate(announcement) ==
    IF ~ContainsExamKeywords(Lower(announcement.title \o <<" ">> \o announcement.content))
          \/ ExtractExamDate(announcement.content) = <<>>
    THEN <<>>
    ELSE <<Exam(K_ann \o announcement.id, announcement.course_code, announcement.title,
                DetermineExamType(Lower(announcement.title \o <<" ">> \o announcement.content)),
                ExtractExamDate(announcement.content),
                ExtractExamTime(announcement.content),
                ExtractLocation(announcement.content),
                announcement.id)>>

\* a detection that names the exam after the announcement's title
DetectIdFromTitle(announcement) ==
    LET full_text == Lower(announcement.title \o <<" ">> \o announcement.content)
    IN  IF ~ContainsExamKeywords(full_text) THEN <<>>
        ELSE <<Exam(K_ann \o announcement.title,
                    announcement.course_code,
                    announcement.title,
                    DetermineExamType(full_text),
                    ExtractExamDate(announcement.content),
                    ExtractExamTime(announcement.content),
                    ExtractLocation(announcement.content),
                    announcement.id)>>

\* _detect_from_announcement: <<>> or <<exam>>
DetectFromAnnouncement(announcement) ==
    LET full_text == Lower(announcement.title \o <<" ">> \o announcement.content)
    IN  IF ~ContainsExamKeywords(full_text) THEN <<>>
        ELSE <<Exam(K_ann \o announcement.id,
                    announcement.course_code,
                    announcement.title,
                    DetermineExamType(full_text),
                    ExtractExamDate(announcement.content),
                    ExtractExamTime(announcement.content),
                    ExtractLocation(announcement.content),
                    announcement.id)>>

\* a pass that keeps every occurrence
UniqueByIdKeepAll(items, seen_ids) == items

\* the first occurrence of every id, in order ("Deduplicate by ID")
RECURSIVE UniqueById(_, _)
UniqueById(items, seen_ids) ==
    IF items = <<>> THEN <<>>
    ELSE IF Head(items).id \in seen_ids THEN UniqueById(Tail(items), seen_ids)
    ELSE <<Head(items)>> \o UniqueById(Tail(items), seen_ids \cup {Head(items).id})

\* the exams detected from a list of announcements, in order
RECURSIVE DetectAll(_)
DetectAll(announcements) ==
    IF announcements = <<>> THEN <<>>
    ELSE DetectFromAnnouncement(Head(announcements)) \o DetectAll(Tail(announcements))

\* a scrape that keeps every exam detected, without the pass over seen ids
ExamDetectorScrapeKeepAll(announcements) == DetectAll(announcements)

\* ExamDetector.scrape
ExamDetectorScrape(announcements) == UniqueById(DetectAll(announcements), {})

(* --------------------- db/notification_store.py ----------------------- *)
\* SentNotification(...).model_dump(exclude={"id"}) as built by mark_as_sent
SentNotification(item, sent_at) ==
    [notification_type |-> NotificationType(item),
     dedup_key         |-> DedupKey(item),
     content_hash      |-> ContentHash(item),
     course_code       |-> item.course_code,
     title             |-> item.title,
     sent_at           |-> sent_at]

\* a plain insert, with no conflict target
UpsertInsert(rows, record) == rows \cup {record}

\* an insert that leaves the row of a conflicting key as it is
UpsertKeepOld(rows, record) ==
    IF \E r \in rows : r.dedup_key = record.dedup_key THEN rows ELSE rows \cup {record}

\* table.upsert(record, on_conflict="dedup_key"): a row with the record's
\* dedup_key is overwritten, otherwise the record is inserted
Upsert(rows, record) ==
    IF \E r \in rows : r.dedup_key = record.dedup_key
    THEN {IF r.dedup_key = record.dedup_key THEN record ELSE r : r \in rows}
    ELSE rows \cup {record}

\* a lookup that does not compare the fingerprint
HasBeenSentAnyHash(rows, item, error) ==
    IF error THEN FALSE ELSE \E r \in rows : r.dedup_key = DedupKey(item)

\* a lookup that reports "sent" when the select raised
HasBeenSentFailClosed(rows, item, error) ==
    IF error THEN TRUE
    ELSE \E r \in rows : r.dedup_key = DedupKey(item) /\ r.content_hash = ContentHash(item)

\* has_been_sent; `error` says that the select raised
HasBeenSent(rows, item, error) ==
    IF error THEN FALSE
    ELSE LET data == {r \in rows : r.dedup_key = DedupKey(item)}
         IN  IF data = {} THEN FALSE
             ELSE LET existing == CHOOSE r \in data : TRUE
                  IN  IF existing.content_hash # ContentHash(item) THEN FALSE ELSE TRUE

\* a lookup that stores the item it is asked about
HasBeenSentRowsStores(rows, item, error) ==
    IF error THEN rows
    ELSE rows \cup {[notification_type |-> item.kind, dedup_key |-> DedupKey(item),
                     content_hash |-> ContentHash(item), course_code |-> item.course_code,
                     title |-> item.title, sent_at |-> 0]}

\* the table after has_been_sent: its only statement is a select
HasBeenSentRows(rows, item, error) == rows

\* the table after mark_as_sent; `error` says that the upsert raised
MarkAsSentRows(rows, item, utcnow, error) ==
    IF error THEN rows ELSE Upsert(rows, SentNotification(item, utcnow))

\* the value mark_as_sent returns
MarkAsSentResult(error) == IF error THEN FALSE ELSE TRUE

\* a deletion that takes the records at the cutoff as well
OldRecordsInclusive(rows, days, utcnow) == {r \in rows : r.sent_at <= utcnow - days}

\* the rows clear_old_records deletes: sent_at < utcnow - days
OldRecords(rows, days, utcnow) == {r \in rows : r.sent_at < utcnow - days}

\* the table after clear_old_records; `error` says that the delete raised
ClearOldRecordsRows(rows, days, utcnow, error) ==
    IF error THEN rows ELSE rows \ OldRecords(rows, days, utcnow)

\* the value clear_old_records returns
ClearOldRecordsResult(rows, days, utcnow, error) ==
    IF error THEN 0 ELSE Cardinality(OldRecords(rows, days, utcnow))

(* ------------------- scrapers: announcements, assignments ------------- *)
\* AnnouncementScraper.scrape: the announcements of the feeds, the first
\* occurrence of every id kept
ScrapeAnnouncements(feed) == UniqueById(feed, {})

\* AssignmentScraper._determine_status
DetermineStatus(status_text, due_date, close_date, utcnow) ==
    LET status_str == Lower(status_text)
    IN  IF Contains(V_submitted, status_str) THEN V_submitted
        ELSE IF Contains(V_graded, status_str) \/ Contains(V_returned, status_str)
        THEN V_graded
        ELSE IF close_date # <<>> /\ utcnow > close_date[1] THEN V_closed
        ELSE IF due_date # <<>> /\ utcnow > due_date[1] THEN V_late
        ELSE V_not_started

\* AssignmentScraper._parse_api_assignment
ParseApiAssignment(raw, utcnow) ==
    Assignment(raw.id, raw.context, raw.title, raw.dueTime, raw.closeTime,
               DetermineStatus(raw.status, raw.dueTime, raw.closeTime, utcnow))

\* AssignmentScraper.scrape
ScrapeAssignments(feed, utcnow) ==
    UniqueById([i \in 1..Len(feed) |-> ParseApiAssignment(feed[i], utcnow)], {})

\* the collection a site endpoint serves for one course
SiteAnnouncements(feed, course) ==
    LET OfCourse(a) == a.course_code = course
    IN  SelectSeq(feed, OfCourse)

\* an AnnouncementScraper.scrape that gives up at the first course whose
\* request raises
RECURSIVE CourseAnnouncementsAbort(_, _, _)
CourseAnnouncementsAbort(feed, courses, failed) ==
    IF courses = <<>> \/ Head(courses) \in failed THEN <<>>
    ELSE SiteAnnouncements(feed, Head(courses))
            \o CourseAnnouncementsAbort(feed, Tail(courses), failed)

\* AnnouncementScraper.scrape, the loop over the courses: the collections of
\* the courses whose request did not raise, in the order of the courses
RECURSIVE CourseAnnouncements(_, _, _)
CourseAnnouncements(feed, courses, failed) ==
    IF courses = <<>> THEN <<>>
    ELSE (IF Head(courses) \in failed THEN <<>>
          ELSE SiteAnnouncements(feed, Head(courses)))
            \o CourseAnnouncements(feed, Tail(courses), failed)

\* _scrape_user_announcements: the user-level feed, cut down to the known
\* courses; nothing when its request raised
UserAnnouncements(feed, courses, user_failed) ==
    LET Known(a) == \E i \in 1..Len(courses) : courses[i] = a.course_code
    IN  IF user_failed THEN <<>> ELSE SelectSeq(feed, Known)

\* AnnouncementScraper.scrape with the requests of the courses in `failed`
\* raising, and the user-level request raising when user_failed
AnnouncementScraperScrape(feed, courses, failed, user_failed) ==
    UniqueById(CourseAnnouncements(feed, courses, failed)
                  \o UserAnnouncements(feed, courses, user_failed), {})

\* the items of /direct/assignment/my.json or of a site endpoint that belong
\* to one of the courses, parsed
ParsedAssignments(feed, courses, utcnow) ==
    LET Known(raw) == \E i \in 1..Len(courses) : courses[i] = raw.context
        known == SelectSeq(feed, Known)
    IN  [i \in 1..Len(known) |-> ParseApiAssignment(known[i], utcnow)]

\* AssignmentScraper.scrape, the fallback loop over the courses
RECURSIVE CourseAssignments(_, _, _, _)
CourseAssignments(feed, courses, failed, utcnow) ==
    IF courses = <<>> THEN <<>>
    ELSE (IF Head(courses) \in failed THEN <<>>
          ELSE ParsedAssignments(feed, <<Head(courses)>>, utcnow))
            \o CourseAssignments(feed, Tail(courses), failed, utcnow)

\* AssignmentScraper.scrape: the user endpoint, and, when its request raised
\* (my_failed), the site endpoints of the courses, those in `failed` raising
AssignmentScraperScrape(feed, courses, my_failed, failed, utcnow) ==
    IF my_failed
    THEN UniqueById(CourseAssignments(feed, courses, failed, utcnow), {})
    ELSE UniqueById(ParsedAssignments(feed, courses, utcnow), {})

(* ------------------------- the portal's content ----------------------- *)
T_QuizAnnounced == <<"Q", "u", "i", "z", " ", "a", "n", "n", "o", "u", "n", "c", "e", "d">>
B_QuizOnFriday == <<"Q", "u", "i", "z", " ", "o", "n", " ", "F", "r", "i", "d", "a", "y">>
B_QuizMovedToMonday == <<"Q", "u", "i", "z", " ", "m", "o", "v", "e", "d", " ", "t", "o", " ", "M", "o", "n", "d", "a", "y">>
T_Essay == <<"E", "s", "s", "a", "y">>

A42Friday == Announcement(<<"4", "2">>, "C1", T_QuizAnnounced, B_QuizOnFriday)
A42Monday == Announcement(<<"4", "2">>, "C1", T_QuizAnnounced, B_QuizMovedToMonday)

\* an assignment as /direct/assignment/my.json reports it
RawEssay(status) ==
    [id |-> <<"e", "1">>, context |-> "C1", title |-> T_Essay,
     dueTime |-> <<1>>, closeTime |-> <<>>, status |-> status]

\* the sites of the portal, in the order the courses scraper lists them
AllCourses == <<"C1", "C2">>

\* CourseScraper.scrape: the courses of the sites that have content
PortalCourses(anns, asgs) ==
    LET HasContent(c) == \/ \E i \in 1..Len(anns) : anns[i].course_code = c
                         \/ \E i \in 1..Len(asgs) : asgs[i].context = c
    IN  SelectSeq(AllCourses, HasContent)

\* the members of a list
Range(list) == {list[i] : i \in 1..Len(list)}

\* 1 for a request that raised
Raised(failed) == IF failed THEN 1 ELSE 0

\* the announcement feeds and assignment feeds the portal can serve
AnnFeeds == {<<A42Friday>>, <<A42Monday>>}
AsgFeeds == {<<RawEssay(<<>>)>>}

\* every item the store-level operations are called with
StoreItems ==
    {A42Friday, A42Monday, ParseApiAssignment(RawEssay(<<>>), 0)}
        \cup {DetectFromAnnouncement(A42Friday)[1]}

(* ------------- the inputs of the detector and the fingerprints -------- *)
T_Midterm == <<"M", "i", "d", "t", "e", "r", "m">>
T_FinalQuiz == <<"F", "i", "n", "a", "l", " ", "q", "u", "i", "z">>
T_Notes == <<"N", "o", "t", "e", "s">>
T_OralCaTest == <<"O", "r", "a", "l", " ", "C", "A", " ", "t", "e", "s", "t">>
B_Empty == <<>>
B_Mar5 == <<"M", "a", "r", " ", "5", ",", " ", "2", "0", "2", "4">>
B_Room == <<"9", "a", "m", " ", "R", "o", "o", "m", ":", " ", "B", "2">>
B_Feb31 == <<"3", "1", "/", "0", "2", "/", "2", "4", " ", "1", "0", ":", "3", "0">>
B_Viva == <<"V", "i", "v", "a", " ", "5", "/", "3", "/", "2", "4">>
B_FinalLab == <<"F", "i", "n", "a", "l", " ", "l", "a", "b", " ", "e", "x", "a", "m">>
B_Feb30 == <<"F", "e", "b", " ", "3", "0", "t", "h", ",", " ", "2", "0", "2", "4">>
B_LabExam == <<"L", "a", "b", " ", "e", "x", "a", "m">>
B_CaTest == <<"c", "a", " ", "t", "e", "s", "t", " ", "2", "p", "m">>
B_Test == <<"T", "e", "s", "t">>

SampleTitles == {T_Midterm, T_FinalQuiz, T_Notes, T_OralCaTest}
SampleBodies ==
    {B_Empty, B_Mar5, B_Room, B_Feb31, B_Viva, B_FinalLab, B_Feb30, B_LabExam, B_CaTest,
     B_Test}

\* the announcements the detector is applied to: two ids, each in its course
SampleAnns ==
    {Announcement(<<"1">>, "C1", title, content) : title \in SampleTitles, content \in SampleBodies}
        \cup {Announcement(<<"2">>, "C2", title, content) :
                 title \in SampleTitles, content \in SampleBodies}

\* the announcements that come in pairs: same id or not, with and without keyword
PairedAnns ==
    {a \in SampleAnns : a.title \in {T_Midterm, T_Notes} /\ a.content \in {B_Mar5, B_Viva}}

\* the lists of announcements the detector is applied to
SampleAnnFeeds ==
    {<<a>> : a \in SampleAnns} \cup {<<a, b>> : a \in PairedAnns, b \in PairedAnns}

\* assignments as /direct/assignment/my.json reports them: two ids, two
\* titles, with and without due time and close time, two status texts
SampleRaws ==
    {[id |-> id, context |-> "C1", title |-> title, dueTime |-> due,
      closeTime |-> close, status |-> status] :
        id \in {<<"e", "1">>, <<"e", "2">>}, title \in {T_Essay, T_Notes},
        due \in {<<>>, <<1>>, <<2>>}, close \in {<<>>, <<1>>}, status \in {<<>>, V_submitted}}

\* the lists of assignments the fingerprints are taken of
SampleAsgFeeds ==
    {<<a, b>> : a \in {r \in SampleRaws : /\ r.id = <<"e", "1">>
                                            /\ r.title = T_Essay
                                            /\ r.dueTime = <<1>>
                                            /\ r.closeTime = <<>>},
                b \in SampleRaws}


\* the content of a portal of two courses
N7 == Announcement(<<"7">>, "C1", T_Notes, B_Empty)
N8 == Announcement(<<"8">>, "C2", T_Midterm, B_Mar5)
RawReport ==
    [id |-> <<"r", "2">>, context |-> "C2", title |-> T_Notes,
     dueTime |-> <<>>, closeTime |-> <<>>, status |-> <<>>]

(* ------------------------ auth/sakai_session.py ----------------------- *)
LOGIN_MAX_RETRIES == 3
LOGIN_RETRY_BACKOFF == 30

\* _verify_login: the phrases of the textual fallback
FAILURE_INDICATORS ==
    << <<"I", "n", "v", "a", "l", "i", "d", " ", "l", "o", "g", "i", "n">>,
       <<"i", "n", "v", "a", "l", "i", "d", " ", "c", "r", "e", "d", "e", "n", "t", "i", "a", "l", "s">>,
       <<"L", "o", "g", "i", "n", " ", "f", "a", "i", "l", "e", "d">>,
       <<"i", "n", "c", "o", "r", "r", "e", "c", "t", " ", "p", "a", "s", "s", "w", "o", "r", "d">>,
       <<"a", "u", "t", "h", "e", "n", "t", "i", "c", "a", "t", "i", "o", "n", " ", "f", "a", "i", "l", "e", "d">>,
       <<"L", "o", "g", "i", "n", " ", "R", "e", "q", "u", "i", "r", "e", "d">> >>
SUCCESS_INDICATORS ==
    << <<"l", "o", "g", "o", "u", "t">>,
       <<"m", "y", " ", "w", "o", "r", "k", "s", "p", "a", "c", "e">>,
       <<"m", "y", " ", "s", "i", "t", "e", "s">> >>

\* some indicator of the list, lower-cased, is in the lower-cased text
HasIndicator(indicators, text) ==
    \E i \in 1..Len(indicators) : Contains(Lower(indicators[i]), Lower(text))

\* data.get("userEid") or data.get("userId")
UserOf(session_resp) ==
    IF session_resp.userEid # <<>> THEN session_resp.userEid ELSE session_resp.userId

\* _verify_login: the value returned and the user id it stores (<<>> when it
\* stores none).  session_resp is the answer of /direct/session/current.json
\* (the request raising, or a status code and a body that is JSON or not);
\* response_text the body of the login POST's response; page_user the text of
\* the page's currentUser / loginUser element, if any.
VerifyLogin(session_resp, response_text, page_user) ==
    IF (~session_resp.raises) /\ session_resp.status_code = 200
         /\ session_resp.json /\ session_resp.userId # <<>>
    THEN [ret |-> TRUE, user_id |-> UserOf(session_resp)]
    ELSE IF HasIndicator(FAILURE_INDICATORS, response_text)
    THEN [ret |-> FALSE, user_id |-> <<>>]
    ELSE IF HasIndicator(SUCCESS_INDICATORS, response_text)
    THEN [ret |-> TRUE, user_id |-> page_user]
    ELSE [ret |-> FALSE, user_id |-> <<>>]

\* answers of the introspection request: it raises; the portal has no such
\* endpoint (404); an error page with status 200 that is not JSON; the
\* session's JSON without a user (nobody is logged in); with a user id; with
\* a user id and an enterprise id
SessionResponses ==
    { [raises |-> TRUE, status_code |-> 0, json |-> FALSE, userId |-> <<>>, userEid |-> <<>>],
      [raises |-> FALSE, status_code |-> 404, json |-> FALSE, userId |-> <<>>, userEid |-> <<>>],
      [raises |-> FALSE, status_code |-> 200, json |-> FALSE, userId |-> <<>>, userEid |-> <<>>],
      [raises |-> FALSE, status_code |-> 200, json |-> TRUE, userId |-> <<>>, userEid |-> <<>>],
      [raises |-> FALSE, status_code |-> 200, json |-> TRUE, userId |-> <<"id7">>, userEid |-> <<>>],
      [raises |-> FALSE, status_code |-> 200, json |-> TRUE, userId |-> <<"id7">>, userEid |-> <<"kofi">>] }

\* bodies of the login POST's response
P_Welcome == <<"W", "e", "l", "c", "o", "m", "e">>
P_Logout == <<"L", "o", "g", "o", "u", "t">>
P_InvalidLogin == <<"I", "n", "v", "a", "l", "i", "d", " ", "L", "o", "g", "i", "n">>
P_Both == <<"L", "o", "g", "i", "n", " ", "f", "a", "i", "l", "e", "d", ".", " ", "L", "o", "g", "o", "u", "t">>
P_MySites == <<"M", "Y", " ", "S", "I", "T", "E", "S">>
LoginPages == {P_Welcome, P_Logout, P_InvalidLogin, P_Both, P_MySites}

\* SakaiSession.__init__: not authenticated, no user id, an empty cookie jar
NewSession == [authenticated |-> FALSE, user_id |-> <<>>, cookies |-> FALSE]

\* what one login attempt can meet: the verification succeeds ("ok"), a
\* request raises ConnectionError or Timeout, the verification fails
\* ("rejected"), a request raises another RequestException ("http_error")
AttemptOutcomes == {"ok", "connection", "timeout", "rejected", "http_error"}

\* the outcomes of the attempts a login() would make, one per attempt
LoginScripts == [1..LOGIN_MAX_RETRIES -> AttemptOutcomes]

\* _attempt_login: the session afterwards
AttemptLoginSession(sess, outcome) ==
    IF outcome = "ok"
    THEN [authenticated |-> TRUE, user_id |-> <<"u">>, cookies |-> TRUE]
    ELSE IF outcome = "rejected" THEN [sess EXCEPT !.cookies = TRUE]
    ELSE sess

\* an _attempt_login whose verification failure is handled like a connection error
AttemptLoginResultRetryAll(outcome) ==
    IF outcome = "ok" THEN "True"
    ELSE IF outcome \in {"connection", "rejected"} THEN "ConnectionError"
    ELSE IF outcome = "timeout" THEN "Timeout"
    ELSE "SakaiAuthError"

\* _attempt_login: "True", or the exception it raises
AttemptLoginResult(outcome) ==
    IF outcome = "ok" THEN "True"
    ELSE IF outcome = "connection" THEN "ConnectionError"
    ELSE IF outcome = "timeout" THEN "Timeout"
    ELSE "SakaiAuthError"

\* a login loop that waits the base delay every time, without doubling
RECURSIVE LoginLoopFlat(_, _, _, _, _)
LoginLoopFlat(sess, script, attempt, sleeps, last_error) ==
    IF attempt > LOGIN_MAX_RETRIES
    THEN [session |-> sess, ret |-> "SakaiAuthError", cause |-> last_error,
          attempts |-> attempt - 1, sleeps |-> sleeps]
    ELSE IF AttemptLoginResult(script[attempt]) \in {"True", "SakaiAuthError"}
    THEN [session |-> AttemptLoginSession(sess, script[attempt]),
          ret |-> AttemptLoginResult(script[attempt]), cause |-> <<>>,
          attempts |-> attempt, sleeps |-> sleeps]
    ELSE LoginLoopFlat(AttemptLoginSession(sess, script[attempt]), script, attempt + 1,
                       IF attempt < LOGIN_MAX_RETRIES
                       THEN Append(sleeps, LOGIN_RETRY_BACKOFF)
                       ELSE sleeps,
                       <<AttemptLoginResult(script[attempt])>>)

\* login(): the loop from attempt `attempt` on; `sleeps` are the waits made
\* so far, `last_error` the last transient error
RECURSIVE LoginLoop(_, _, _, _, _)
LoginLoop(sess, script, attempt, sleeps, last_error) ==
    IF attempt > LOGIN_MAX_RETRIES
    THEN [session |-> sess, ret |-> "SakaiAuthError", cause |-> last_error,
          attempts |-> attempt - 1, sleeps |-> sleeps]
    ELSE IF AttemptLoginResult(script[attempt]) \in {"True", "SakaiAuthError"}
    THEN [session |-> AttemptLoginSession(sess, script[attempt]),
          ret |-> AttemptLoginResult(script[attempt]), cause |-> <<>>,
          attempts |-> attempt, sleeps |-> sleeps]
    ELSE LoginLoop(AttemptLoginSession(sess, script[attempt]), script, attempt + 1,
                   IF attempt < LOGIN_MAX_RETRIES
                   THEN Append(sleeps, LOGIN_RETRY_BACKOFF * (2 ^ (attempt - 1)))
                   ELSE sleeps,
                   <<AttemptLoginResult(script[attempt])>>)

\* a login() that makes one attempt and gives up on any failure
LoginNoRetry(sess, script) ==
    [session |-> AttemptLoginSession(sess, script[1]),
     ret |-> IF script[1] = "ok" THEN "True" ELSE "SakaiAuthError",
     cause |-> IF AttemptLoginResult(script[1]) \in {"ConnectionError", "Timeout"}
               THEN <<AttemptLoginResult(script[1])>> ELSE <<>>,
     attempts |-> 1, sleeps |-> <<>>]

\* login()
Login(sess, script) == LoginLoop(sess, script, 1, <<>>, <<>>)

\* a get(path) that returns after the re-login without issuing the request again
GetAfterExpiryNoRetry(relogin, lands_again) ==
    [session |-> relogin.session,
     ret |-> IF relogin.ret = "True" THEN "response" ELSE "SakaiAuthError",
     on_login |-> relogin.ret = "True", requests |-> 1, logins |-> 1,
     login |-> <<relogin.ret>>]

\* get(path), after the first response landed on the login path of a
\* non-login request: `relogin` is what login() did
GetAfterExpiry(relogin, lands_again) ==
    IF relogin.ret = "True"
    THEN [session |-> relogin.session, ret |-> "response", on_login |-> lands_again,
          requests |-> 2, logins |-> 1, login |-> <<relogin.ret>>]
    ELSE [session |-> relogin.session, ret |-> "SakaiAuthError", on_login |-> FALSE,
          requests |-> 1, logins |-> 1, login |-> <<relogin.ret>>]

\* a get(path) that leaves the flag up while it logs in again
SessionGetKeepsFlag(sess, login_path, lands, script, lands_again) ==
    IF ~sess.authenticated
    THEN [session |-> sess, ret |-> "SakaiAuthError", on_login |-> FALSE,
          requests |-> 0, logins |-> 0, login |-> <<>>]
    ELSE IF lands /\ ~login_path
    THEN GetAfterExpiry(Login(sess, script), lands_again)
    ELSE [session |-> sess, ret |-> "response", on_login |-> lands,
          requests |-> 1, logins |-> 0, login |-> <<>>]

\* get(path): `login_path` says that path is the login path, `lands` that
\* the response's url is the login path, `lands_again` the same for the
\* request issued after the re-login, `script` what the re-login meets
SessionGet(sess, login_path, lands, script, lands_again) ==
    IF ~sess.authenticated
    THEN [session |-> sess, ret |-> "SakaiAuthError", on_login |-> FALSE,
          requests |-> 0, logins |-> 0, login |-> <<>>]
    ELSE IF lands /\ ~login_path
    THEN GetAfterExpiry(Login([sess EXCEPT !.authenticated = FALSE], script), lands_again)
    ELSE [session |-> sess, ret |-> "response", on_login |-> lands,
          requests |-> 1, logins |-> 0, login |-> <<>>]

\* logout(): the session afterwards; the outcome of the logout request does not matter
LogoutSession(sess, request_ok) ==
    IF sess.authenticated
    THEN [authenticated |-> FALSE, user_id |-> <<>>, cookies |-> FALSE]
    ELSE sess

\* logout(): the logout requests issued
LogoutRequests(sess) == IF sess.authenticated THEN 1 ELSE 0

\* a logout() that lets the failure of its request through
LogoutResultRaises(sess, request_ok) ==
    IF sess.authenticated /\ ~request_ok THEN "RequestException" ELSE "None"

\* logout(): "None" for a normal return, or the exception it raises; the
\* RequestException of the logout request is caught
LogoutResult(sess, request_ok) == "None"

\* the login scripts told apart by what login() does with them: the attempts
\* after the one that ends the loop are never made
RunScripts ==
    {script \in LoginScripts :
        \A k \in 1..LOGIN_MAX_RETRIES :
            AttemptLoginResult(script[k]) \in {"True", "SakaiAuthError"}
                => \A j \in (k + 1)..LOGIN_MAX_RETRIES : script[j] = "ok"}

(* ------------------------------- state -------------------------------- *)
VARIABLES
    table,              \* the rows of the sent_notifications table
    now,                \* the wall clock, in days
    portalAnns,         \* the announcement feed the portal serves
    portalAsgs,         \* the assignment feed the portal serves
    pc,                 \* where run() stands: "idle" between runs
    runNo,              \* the number of runs started
    new_announcements,  \* run(): the announcements that passed the filter
    new_assignments,    \* run(): the assignments that passed the filter
    new_exams,          \* run(): the exams that passed the filter
    sendIdx,            \* _send_notifications: the items handled so far
    stats,              \* SakaiMonitor.stats of the current run
    channel,            \* the messages delivered to the channel by the current run
    result,             \* what the last run() returned: "True" or "False" ("none" before
                        \* the first run, "running" during a run)
    call,               \* the last store call or _send_and_record call, with its outcome
    marked,             \* history: the keys mark_as_sent has written
    lastSent,           \* history: per key, the fingerprint delivered last
    lookupFailed,       \* history: the keys whose lookup raised in the current run
    sendFailed,         \* history: the keys whose send failed in the current run
    writeFailed,        \* history: the keys whose record write failed in the current run
    snap,               \* history: the feeds the current run read
    prev,               \* history: the run before the current one
    faults,             \* history: the external calls that have failed so far (the
                        \* error notification of run() is not counted)
    session,            \* the SakaiSession: _authenticated, _user_id, the cookie jar
    runLog,             \* history: what the current run did with its session
    writers             \* what each of two concurrent runs is doing (its mark_as_sent, its run())

storeVars == <<table, now, call, marked>>
portalVars == <<portalAnns, portalAsgs>>
runVars == <<pc, runNo, new_announcements, new_assignments, new_exams, sendIdx,
             stats, channel, result>>
histVars == <<lastSent, lookupFailed, sendFailed, writeFailed, snap, prev, faults>>
sessVars == <<session, runLog>>
vars == <<storeVars, portalVars, runVars, histVars, sessVars, writers>>

NoCall == [op |-> "none"]

\* the runs that may overlap
Writers == {"run1", "run2"}

\* no mark_as_sent in progress
NoWriters == [w \in Writers |-> [stage |-> "idle"]]

\* nothing done yet with the session of a run; ann_scrape and asg_scrape say
\* which requests of the two scrapes raised
NoRunLog == [login |-> "none", entered |-> FALSE, relogin |-> "none", work |-> "none",
             logout |-> "none", caught |-> 0, notices |-> 0, all_announcements |-> <<>>,
             ann_scrape |-> [got |-> "none", failed |-> {}, user_failed |-> FALSE],
             asg_scrape |-> [got |-> "none", failed |-> {}, my_failed |-> FALSE]]

\* SakaiMonitor.__init__: self.stats
InitStats ==
    [courses_scraped |-> 0, announcements_found |-> 0, assignments_found |-> 0,
     exams_found |-> 0, notifications_sent |-> 0, errors |-> 0]

NoRun == [anns |-> <<>>, asgs |-> <<>>, sendFailed |-> {}, writeFailed |-> {},
          result |-> "none", sent |-> {}]

InitWith(anns, asgs) ==
    /\ table = {}
    /\ now = 0
    /\ portalAnns = anns
    /\ portalAsgs = asgs
    /\ pc = "idle"
    /\ runNo = 0
    /\ new_announcements = <<>>
    /\ new_assignments = <<>>
    /\ new_exams = <<>>
    /\ sendIdx = 0
    /\ stats = InitStats
    /\ channel = <<>>
    /\ result = "none"
    /\ call = NoCall
    /\ marked = {}
    /\ lastSent = {}
    /\ lookupFailed = {}
    /\ sendFailed = {}
    /\ writeFailed = {}
    /\ snap = [anns |-> <<>>, asgs |-> <<>>]
    /\ prev = NoRun
    /\ faults = 0
    /\ session = NewSession
    /\ runLog = NoRunLog
    /\ writers = NoWriters

Init == \E anns \in AnnFeeds, asgs \in AsgFeeds : InitWith(anns, asgs)

(* -------------------- the store, called directly ---------------------- *)
HasBeenSentCall ==
    /\ pc = "idle"
    /\ \E item \in StoreItems, error \in BOOLEAN :
          /\ call' = [op |-> "has_been_sent", item |-> item, error |-> error,
                      ret |-> HasBeenSent(table, item, error)]
          /\ table' = HasBeenSentRows(table, item, error)
    /\ UNCHANGED <<now, marked, portalVars, writers, sessVars, runVars, histVars>>

MarkAsSentCall ==
    /\ pc = "idle"
    /\ \E item \in StoreItems, error \in BOOLEAN :
          /\ table' = MarkAsSentRows(table, item, now, error)
          /\ call' = [op |-> "mark_as_sent", item |-> item, error |-> error,
                      ret |-> MarkAsSentResult(error), at |-> now,
                      before |-> {r \in table : r.dedup_key = DedupKey(item)}]
          /\ marked' = IF error THEN marked ELSE marked \cup {DedupKey(item)}
    /\ UNCHANGED <<now, portalVars, writers, sessVars, runVars, histVars>>

ClearOldRecordsCall ==
    /\ pc = "idle"
    /\ \E days \in 0..MaxDays, error \in BOOLEAN :
          /\ table' = ClearOldRecordsRows(table, days, now, error)
          /\ call' = [op |-> "clear_old_records", days |-> days, error |-> error,
                      ret |-> ClearOldRecordsResult(table, days, now, error),
                      at |-> now, before |-> table]
    /\ UNCHANGED <<now, marked, portalVars, writers, sessVars, runVars, histVars>>

\* time passes between calls and between runs
Tick ==
    /\ pc = "idle"
    /\ now < MaxClock
    /\ now' = now + 1
    /\ UNCHANGED <<table, call, marked, portalVars, writers, sessVars, runVars, histVars>>

StoreNext == HasBeenSentCall \/ MarkAsSentCall \/ ClearOldRecordsCall \/ Tick

SpecStore == InitWith(<<>>, <<>>) /\ [][StoreNext]_vars

(* ------------------ mark_as_sent of runs that overlap ----------------- *)
\* mark_as_sent builds its record, with the time of the call
WriterBuild(w) ==
    /\ pc = "idle"
    /\ writers[w].stage = "idle"
    /\ \E item \in StoreItems :
          writers' = [writers EXCEPT ![w] = [stage |-> "built", item |-> item,
                                             sent_at |-> now]]
    /\ UNCHANGED <<table, now, call, marked, portalVars, sessVars, runVars, histVars>>

\* mark_as_sent sends its upsert, which the database executes as one
\* statement under the unique constraint on dedup_key, and returns
WriterUpsert(w) ==
    /\ pc = "idle"
    /\ writers[w].stage = "built"
    /\ \E error \in BOOLEAN :
          /\ table' = MarkAsSentRows(table, writers[w].item, writers[w].sent_at, error)
          /\ writers' = [writers EXCEPT ![w] = [stage |-> "done", item |-> @.item,
                                                sent_at |-> @.sent_at,
                                                ret |-> MarkAsSentResult(error)]]
          /\ marked' = IF error THEN marked ELSE marked \cup {DedupKey(writers[w].item)}
    /\ UNCHANGED <<now, call, portalVars, sessVars, runVars, histVars>>

\* both calls have returned; the runs go on to their next items
WritersReturn ==
    /\ pc = "idle"
    /\ \A w \in Writers : writers[w].stage = "done"
    /\ writers' = NoWriters
    /\ UNCHANGED <<storeVars, portalVars, sessVars, runVars, histVars>>

ConcurrentNext ==
    \/ \E w \in Writers : WriterBuild(w)
    \/ \E w \in Writers : WriterUpsert(w)
    \/ WritersReturn
    \/ Tick

SpecConcurrent == InitWith(<<>>, <<>>) /\ [][ConcurrentNext]_vars

(* ------------------- the session, called directly --------------------- *)
LoginCall ==
    /\ pc = "idle"
    /\ \E script \in LoginScripts :
          /\ session' = Login(session, script).session
          /\ call' = [op |-> "login", script |-> script, before |-> session,
                      ret |-> Login(session, script).ret,
                      cause |-> Login(session, script).cause,
                      attempts |-> Login(session, script).attempts,
                      sleeps |-> Login(session, script).sleeps]
    /\ UNCHANGED <<table, now, marked, portalVars, writers, runLog, runVars, histVars>>

\* _verify_login, as _attempt_login calls it after the login POST, before
\* the session is marked authenticated
VerifyLoginCall ==
    /\ pc = "idle"
    /\ ~session.authenticated
    /\ \E session_resp \in SessionResponses, response_text \in LoginPages,
          page_user \in {<<>>, <<"ama">>} :
          /\ session' = IF VerifyLogin(session_resp, response_text, page_user).user_id = <<>>
                        THEN session
                        ELSE [session EXCEPT !.user_id =
                                 VerifyLogin(session_resp, response_text, page_user).user_id]
          /\ call' = [op |-> "verify_login", session_resp |-> session_resp,
                      response_text |-> response_text, page_user |-> page_user,
                      before |-> session,
                      ret |-> VerifyLogin(session_resp, response_text, page_user).ret]
    /\ UNCHANGED <<table, now, marked, portalVars, writers, runLog, runVars, histVars>>

GetCall ==
    /\ pc = "idle"
    /\ \E login_path \in BOOLEAN, lands \in BOOLEAN, script \in LoginScripts,
          lands_again \in BOOLEAN :
          /\ session' = SessionGet(session, login_path, lands, script, lands_again).session
          /\ call' = [op |-> "get", login_path |-> login_path, lands |-> lands,
                      lands_again |-> lands_again, before |-> session,
                      out |-> SessionGet(session, login_path, lands, script, lands_again)]
    /\ UNCHANGED <<table, now, marked, portalVars, writers, runLog, runVars, histVars>>

LogoutCall ==
    /\ pc = "idle"
    /\ \E request_ok \in BOOLEAN :
          /\ session' = LogoutSession(session, request_ok)
          /\ call' = [op |-> "logout", request_ok |-> request_ok, before |-> session,
                      requests |-> LogoutRequests(session),
                      ret |-> LogoutResult(session, request_ok)]
    /\ UNCHANGED <<table, now, marked, portalVars, writers, runLog, runVars, histVars>>

SessionNext == LoginCall \/ GetCall \/ LogoutCall

SpecSession == InitWith(<<>>, <<>>) /\ [][SessionNext]_vars

\* the verification of a login, called on its own
VerifyNext == VerifyLoginCall

SpecVerify == InitWith(<<>>, <<>>) /\ [][VerifyNext]_vars

(* ------------- the detector and the models, called directly ----------- *)
\* each behaviour applies one operation to the feeds it starts with
\* the items the portal's feeds give rise to: the announcements, the exams
\* detected from them, the assignments parsed at time utcnow
FeedItems(anns, asgs, utcnow) ==
    {anns[i] : i \in 1..Len(anns)}
        \cup {DetectAll(anns)[i] : i \in 1..Len(DetectAll(anns))}
        \cup {ParseApiAssignment(asgs[i], utcnow) : i \in 1..Len(asgs)}

DetectCall ==
    /\ pc = "idle"
    /\ call = NoCall
    /\ \E i \in 1..Len(portalAnns) :
          call' = [op |-> "detect", announcement |-> portalAnns[i],
                   ret |-> DetectFromAnnouncement(portalAnns[i])]
    /\ UNCHANGED <<table, now, marked, portalVars, writers, sessVars, runVars, histVars>>

ExamScrapeCall ==
    /\ pc = "idle"
    /\ call = NoCall
    /\ call' = [op |-> "exam_scrape", announcements |-> portalAnns,
                ret |-> ExamDetectorScrape(portalAnns)]
    /\ UNCHANGED <<table, now, marked, portalVars, writers, sessVars, runVars, histVars>>

\* dedup_key and content_hash of two items of one kind
FingerprintCall ==
    /\ pc = "idle"
    /\ call = NoCall
    /\ \E a, b \in FeedItems(portalAnns, portalAsgs, now) :
          /\ a.kind = b.kind
          /\ call' = [op |-> "fingerprint", a |-> a, b |-> b,
                      key_a |-> DedupKey(a), key_b |-> DedupKey(b),
                      hash_a |-> ContentHash(a), hash_b |-> ContentHash(b)]
    /\ UNCHANGED <<table, now, marked, portalVars, writers, sessVars, runVars, histVars>>

\* time passes between two readings of the assignments
ItemsTick == portalAsgs # <<>> /\ call = NoCall /\ Tick

ItemsNext == DetectCall \/ ExamScrapeCall \/ FingerprintCall \/ ItemsTick

InitItems ==
    \/ \E anns \in SampleAnnFeeds : InitWith(anns, <<>>)
    \/ \E asgs \in SampleAsgFeeds : InitWith(<<>>, asgs)

SpecItems == InitItems /\ [][ItemsNext]_vars

(* ------------------------------ main.py ------------------------------- *)
\* what WhatsAppNotifier.send_message can do: return True, return False, raise
SendOutcomes == {"ok", "false", "raise"}

Keys(items) == {DedupKey(items[i]) : i \in 1..Len(items)}

\* a filter that lets every item through
FilterNewAll(items, rows, errors) == items

\* the filter loops of _process_*: the items has_been_sent does not report
\* as sent; `errors` are the keys whose lookup raises
FilterNew(items, rows, errors) ==
    LET IsNew(item) == ~HasBeenSent(rows, item, DedupKey(item) \in errors)
    IN  SelectSeq(items, IsNew)

\* the table after the filter loops of _process_*: has_been_sent is called
\* on every item in turn
RECURSIVE FilterRows(_, _, _)
FilterRows(items, rows, errors) ==
    IF items = <<>> THEN rows
    ELSE FilterRows(Tail(items),
                    HasBeenSentRows(rows, Head(items), DedupKey(Head(items)) \in errors),
                    errors)

\* run(), step 4: the announcements handed to _process_exams
ExamAnnouncements(all_announcements, new_anns) == new_anns

\* _send_notifications: the items in the order they are sent
SendList(announcements, assignments, exams) == announcements \o assignments \o exams

\* a _send_and_record that records whatever send_message returned
SendAndRecordRowsAlways(rows, item, utcnow, send, write_error) ==
    IF send = "raise" THEN rows ELSE MarkAsSentRows(rows, item, utcnow, write_error)

\* a _send_and_record that sends and never records
SendAndRecordRowsNever(rows, item, utcnow, send, write_error) == rows

\* _send_and_record: the table afterwards
SendAndRecordRows(rows, item, utcnow, send, write_error) ==
    IF send = "ok" THEN MarkAsSentRows(rows, item, utcnow, write_error) ELSE rows

\* _send_and_record: the value returned
SendAndRecordResult(send, write_error) == send = "ok"

\* a _send_and_record that counts every attempt as a notification sent
SendAndRecordStatsCountsAttempts(st, send) ==
    IF send = "raise"
    THEN [st EXCEPT !.notifications_sent = @ + 1, !.errors = @ + 1]
    ELSE [st EXCEPT !.notifications_sent = @ + 1]

\* a _send_and_record that counts a send returning false as an error
SendAndRecordStatsFalseIsError(st, send) ==
    IF send = "ok" THEN [st EXCEPT !.notifications_sent = @ + 1]
    ELSE [st EXCEPT !.errors = @ + 1]

\* _send_and_record: self.stats afterwards
SendAndRecordStats(st, send) ==
    IF send = "ok" THEN [st EXCEPT !.notifications_sent = @ + 1]
    ELSE IF send = "raise" THEN [st EXCEPT !.errors = @ + 1]
    ELSE st

ItemMessage(item) == [type |-> "item", key |-> DedupKey(item), hash |-> ContentHash(item)]
SummaryMessage == [type |-> "summary"]
ErrorMessage == [type |-> "error"]

\* 1 for a send that failed
Failures(send) == IF send = "ok" THEN 0 ELSE 1

\* the channel after send_message(message) with the given outcome
Deliver(ch, message, send) == IF send = "ok" THEN Append(ch, message) ELSE ch

\* a login() whose first attempt succeeds
NoTrouble == [k \in 1..LOGIN_MAX_RETRIES |-> "ok"]

\* the request of a scrape: a get of a path that is not the login path;
\* `lands` says that the session has expired, `script` what the re-login meets
ScrapeGet(sess, lands, script) == SessionGet(sess, FALSE, lands, script, FALSE)

\* the except clauses of the scrapers: a scrape whose request raised yields
\* no item
Scraped(out, items) == IF out.ret = "response" THEN items ELSE <<>>

\* 1 for a session that had expired
Expiries(lands) == IF lands THEN 1 ELSE 0

\* what became of the re-login of the run, after one more request
ReloginLog(log, out) ==
    IF out.logins = 0 THEN log.relogin
    ELSE IF out.ret = "response" THEN "ok" ELSE "failed"

\* what the exit of the session scope did about the logout request
LogoutLog(entered, sess, request_ok) ==
    IF ~entered THEN "none"
    ELSE IF LogoutRequests(sess) = 0 THEN "skipped"
    ELSE IF request_ok THEN "ok" ELSE "failed"

\* run(): the except clause is entered when the work in the session scope
\* raised or when leaving the scope raised
RunCaught(work, entered, sess, request_ok) ==
    work = "raised" \/ (entered /\ LogoutResult(sess, request_ok) # "None")

\* a run() that reports success whenever courses were found
RunResultSwallow(work, caught) == IF work = "no_courses" THEN "False" ELSE "True"

\* run(): the value returned
RunResult(work, caught) == IF ~caught /\ work = "done" THEN "True" ELSE "False"

\* run(): self.stats after the except clause, when it is entered
RunStats(st, caught) == IF caught THEN [st EXCEPT !.errors = @ + 1] ELSE st

\* the end of run(): the session scope is left when it was entered (logout),
\* and the except clause handles what was raised: errors += 1, one error
\* notification whose failure is ignored (and not counted as a fault), False.
\* `work` says how the work ended: "done", "no_courses" (return False) or
\* "raised"; `spent` are the faults up to here
LeaveRun(work, entered, sess, log, st, ch, spent) ==
    \E request_ok \in BOOLEAN, send \in SendOutcomes :
       /\ ~request_ok => (entered /\ sess.authenticated /\ spent < MaxFaults)
       /\ ~RunCaught(work, entered, sess, request_ok) => send = "ok"
       /\ session' = IF entered THEN LogoutSession(sess, request_ok) ELSE sess
       /\ result' = RunResult(work, RunCaught(work, entered, sess, request_ok))
       /\ stats' = RunStats(st, RunCaught(work, entered, sess, request_ok))
       /\ channel' = IF RunCaught(work, entered, sess, request_ok)
                     THEN Deliver(ch, ErrorMessage, send) ELSE ch
       /\ faults' = spent + (IF request_ok THEN 0 ELSE 1)
       /\ runLog' = [log EXCEPT !.work = work,
                                !.logout = LogoutLog(entered, sess, request_ok),
                                !.caught = IF RunCaught(work, entered, sess, request_ok)
                                           THEN 1 ELSE 0,
                                !.notices = IF RunCaught(work, entered, sess, request_ok)
                                            THEN 1 ELSE 0]
       /\ pc' = "idle"

\* what run() knows of its session once the courses request is over
BeginLog(login, out) ==
    [NoRunLog EXCEPT !.login = login.ret, !.entered = login.ret = "True",
                     !.relogin = ReloginLog(NoRunLog, out)]

\* run() from its start to the end of step 1: a new session is entered
\* (login) and the courses are scraped.  Runs are a day apart.  A login
\* failure is handled by run()'s except clause, an empty course list (no
\* site served, or a courses request that raised) makes run() return False.
BeginRun(limit) ==
    /\ pc = "idle"
    /\ runNo < limit
    /\ runNo' = runNo + 1
    /\ new_announcements' = <<>>
    /\ new_assignments' = <<>>
    /\ new_exams' = <<>>
    /\ sendIdx' = 0
    /\ call' = NoCall
    /\ lookupFailed' = {}
    /\ sendFailed' = {}
    /\ writeFailed' = {}
    /\ prev' = [anns |-> snap.anns, asgs |-> snap.asgs, sendFailed |-> sendFailed,
                writeFailed |-> writeFailed, result |-> result,
                sent |-> {channel[i].key : i \in {j \in 1..Len(channel) :
                                                     channel[j].type = "item"}}]
    /\ snap' = [anns |-> portalAnns, asgs |-> portalAsgs]
    /\ now' = now + 1
    /\ \E script \in RunScripts, lands \in BOOLEAN, relogin \in RunScripts,
          sites \in BOOLEAN :
          LET login == Login(NewSession, script)
              out   == ScrapeGet(Login(NewSession, script).session, lands, relogin)
              spent == faults + Failures(script[1]) + Expiries(lands)
                          + (IF sites THEN 0 ELSE 1)
          IN  /\ spent <= MaxFaults
              /\ login.ret # "True" => (~lands /\ sites)
              /\ ~lands => relogin = NoTrouble
              /\ out.ret # "response" => sites
              /\ IF login.ret # "True"
                 THEN LeaveRun("raised", FALSE, login.session, BeginLog(login, out),
                               InitStats, <<>>, spent)
                 ELSE IF out.ret = "response" /\ sites
                 THEN /\ pc' = "announcements"
                      /\ session' = out.session
                      /\ stats' = [InitStats EXCEPT !.courses_scraped =
                                      Len(PortalCourses(portalAnns, portalAsgs))]
                      /\ channel' = <<>>
                      /\ result' = "running"
                      /\ faults' = spent
                      /\ runLog' = BeginLog(login, out)
                 ELSE LeaveRun("no_courses", TRUE, out.session, BeginLog(login, out),
                               InitStats, <<>>, spent)
    /\ UNCHANGED <<table, marked, portalVars, writers, lastSent>>

\* _process_announcements
ProcessAnnouncements ==
    /\ pc = "announcements"
    /\ \E lands \in BOOLEAN, relogin \in RunScripts :
          /\ lands => (session.authenticated /\ faults < MaxFaults)
          /\ ~lands => relogin = NoTrouble
          /\ \E failed \in SUBSET Range(PortalCourses(portalAnns, portalAsgs)),
                user_failed \in BOOLEAN :
             LET out == ScrapeGet(session, lands, relogin)
                 courses == PortalCourses(portalAnns, portalAsgs)
                 spent == faults + Expiries(lands) + Cardinality(failed)
                             + Raised(user_failed)
                 all_announcements ==
                     Scraped(ScrapeGet(session, lands, relogin),
                             AnnouncementScraperScrape(portalAnns, courses, failed,
                                                       user_failed))
             IN  \E errors \in SUBSET Keys(all_announcements) :
                    /\ out.ret # "response" => (failed = {} /\ ~user_failed)
                    /\ spent + Cardinality(errors) <= MaxFaults
                    /\ new_announcements' = FilterNew(all_announcements, table, errors)
                    /\ table' = FilterRows(all_announcements, table, errors)
                    /\ stats' = [stats EXCEPT
                                    !.announcements_found = Len(all_announcements)]
                    /\ lookupFailed' = lookupFailed \cup errors
                    /\ faults' = spent + Cardinality(errors)
                    /\ session' = out.session
                    /\ runLog' = [runLog EXCEPT
                                     !.relogin = ReloginLog(runLog, out),
                                     !.all_announcements = all_announcements,
                                     !.ann_scrape = [got |-> out.ret, failed |-> failed,
                                                     user_failed |-> user_failed]]
    /\ pc' = "assignments"
    /\ UNCHANGED <<now, call, marked, portalVars, writers, runNo, new_assignments, new_exams, sendIdx,
                   channel, result, lastSent, sendFailed, writeFailed, snap, prev>>

\* _process_assignments
ProcessAssignments ==
    /\ pc = "assignments"
    /\ \E lands \in BOOLEAN, relogin \in RunScripts :
          /\ lands => (session.authenticated /\ faults < MaxFaults)
          /\ ~lands => relogin = NoTrouble
          /\ \E my_failed \in BOOLEAN,
                failed \in SUBSET Range(PortalCourses(portalAnns, portalAsgs)) :
             LET out == ScrapeGet(session, lands, relogin)
                 courses == PortalCourses(portalAnns, portalAsgs)
                 spent == faults + Expiries(lands) + Raised(my_failed)
                             + Cardinality(failed)
                 all_assignments ==
                     Scraped(ScrapeGet(session, lands, relogin),
                             AssignmentScraperScrape(portalAsgs, courses, my_failed,
                                                     failed, now))
             IN  \E errors \in SUBSET Keys(all_assignments) :
                    /\ out.ret # "response" => ~my_failed
                    /\ ~my_failed => failed = {}
                    /\ spent + Cardinality(errors) <= MaxFaults
                    /\ new_assignments' = FilterNew(all_assignments, table, errors)
                    /\ table' = FilterRows(all_assignments, table, errors)
                    /\ stats' = [stats EXCEPT !.assignments_found = Len(all_assignments)]
                    /\ lookupFailed' = lookupFailed \cup errors
                    /\ faults' = spent + Cardinality(errors)
                    /\ session' = out.session
                    /\ runLog' = [runLog EXCEPT
                                     !.relogin = ReloginLog(runLog, out),
                                     !.asg_scrape = [got |-> out.ret, failed |-> failed,
                                                     my_failed |-> my_failed]]
    /\ pc' = "exams"
    /\ UNCHANGED <<now, call, marked, portalVars, writers, runNo, new_announcements, new_exams, sendIdx,
                   channel, result, lastSent, sendFailed, writeFailed, snap, prev>>

\* _process_exams, called as run() calls it
ProcessExams ==
    /\ pc = "exams"
    /\ LET announcements == ExamAnnouncements(runLog.all_announcements,
                                              new_announcements)
           all_exams == ExamDetectorScrape(announcements)
       IN  \E errors \in SUBSET Keys(all_exams) :
              /\ Cardinality(errors) <= MaxFaults - faults
              /\ new_exams' = FilterNew(all_exams, table, errors)
              /\ table' = FilterRows(all_exams, table, errors)
              /\ stats' = [stats EXCEPT !.exams_found = Len(all_exams)]
              /\ lookupFailed' = lookupFailed \cup errors
              /\ faults' = faults + Cardinality(errors)
    /\ pc' = "notify"
    /\ UNCHANGED <<now, call, marked, portalVars, writers, sessVars, runNo, new_announcements,
                   new_assignments,
                   sendIdx, channel, result, lastSent, sendFailed, writeFailed, snap,
                   prev>>

\* one _send_and_record call of the loops of _send_notifications
SendAndRecord ==
    /\ pc = "notify"
    /\ LET items == SendList(new_announcements, new_assignments, new_exams)
       IN  /\ sendIdx < Len(items)
           /\ LET item == items[sendIdx + 1]
                  key  == DedupKey(item)
              IN  \E send \in SendOutcomes, write_error \in BOOLEAN :
                     /\ write_error => send = "ok"
                     /\ (send # "ok" \/ write_error) => faults < MaxFaults
                     /\ table' = SendAndRecordRows(table, item, now, send, write_error)
                     /\ stats' = SendAndRecordStats(stats, send)
                     /\ channel' = Deliver(channel, ItemMessage(item), send)
                     /\ call' = [op |-> "_send_and_record", item |-> item, send |-> send,
                                 marked |-> IF send = "ok"
                                            THEN <<MarkAsSentResult(write_error)>>
                                            ELSE <<>>,
                                 ret |-> SendAndRecordResult(send, write_error)]
                     /\ marked' = IF table' # table THEN marked \cup {key} ELSE marked
                     /\ lastSent' = IF send = "ok"
                                    THEN {p \in lastSent : p.key # key}
                                            \cup {[key |-> key, hash |-> ContentHash(item)]}
                                    ELSE lastSent
                     /\ sendFailed' = IF send = "ok" THEN sendFailed
                                      ELSE sendFailed \cup {key}
                     /\ writeFailed' = IF write_error THEN writeFailed \cup {key}
                                       ELSE writeFailed
                     /\ faults' = IF send # "ok" \/ write_error THEN faults + 1 ELSE faults
    /\ sendIdx' = sendIdx + 1
    /\ UNCHANGED <<now, portalVars, writers, sessVars, pc, runNo, new_announcements, new_assignments,
                   new_exams, result, lookupFailed, snap, prev>>

\* the end of _send_notifications (the summary when more than one item was
\* selected) and of run(): the session scope is left and True returned, or
\* the except clause handles what the summary send raised
EndRun ==
    /\ pc = "notify"
    /\ LET total_new == Len(SendList(new_announcements, new_assignments, new_exams))
       IN  /\ sendIdx = total_new
           /\ \/ /\ total_new <= 1
                 /\ LeaveRun("done", TRUE, session, runLog, stats, channel, faults)
              \/ /\ total_new > 1
                 /\ \E send \in {"ok", "false"} :
                       /\ Failures(send) <= MaxFaults - faults
                       /\ LeaveRun("done", TRUE, session, runLog, stats,
                                   Deliver(channel, SummaryMessage, send),
                                   faults + Failures(send))
              \/ \* the summary send raised
                 /\ total_new > 1
                 /\ faults < MaxFaults
                 /\ LeaveRun("raised", TRUE, session, runLog, stats, channel, faults + 1)
    /\ UNCHANGED <<storeVars, portalVars, writers, runNo, new_announcements, new_assignments,
                   new_exams, sendIdx, lastSent, lookupFailed, sendFailed, writeFailed,
                   snap, prev>>

\* the portal's content changes between runs
EditPortal ==
    /\ pc = "idle"
    /\ runNo >= 1
    /\ runNo < MaxRuns
    /\ \E anns \in AnnFeeds, asgs \in AsgFeeds :
          /\ <<anns, asgs>> # <<portalAnns, portalAsgs>>
          /\ portalAnns' = anns
          /\ portalAsgs' = asgs
    /\ UNCHANGED <<storeVars, sessVars, runVars, histVars, writers>>

RunNext(limit) ==
    \/ BeginRun(limit)
    \/ ProcessAnnouncements
    \/ ProcessAssignments
    \/ ProcessExams
    \/ SendAndRecord
    \/ EndRun

Next == RunNext(MaxRuns) \/ EditPortal

Spec == Init /\ [][Next]_vars

(* ------------------------- a portal of two courses -------------------- *)
\* course C1 has announcement 7 and the essay, course C2 announcement 8 (of
\* a midterm) and a report
SpecCourses ==
    InitWith(<<N7, N8>>, <<RawEssay(<<>>), RawReport>>) /\ [][RunNext(CourseRuns)]_vars

(* ----------------------- the three-run scenario ----------------------- *)
\* the body of announcement 42 is edited between the second and the third run
E2EEdit ==
    /\ pc = "idle"
    /\ runNo = 2
    /\ portalAnns = <<A42Friday>>
    /\ portalAnns' = <<A42Monday>>
    /\ UNCHANGED <<portalAsgs, storeVars, sessVars, runVars, histVars, writers>>

E2ENext == RunNext(E2ERuns) \/ E2EEdit

\* one course, one announcement (id "42"), no assignment
SpecE2E == InitWith(<<A42Friday>>, <<>>) /\ [][E2ENext]_vars

(* ------------------- an exam announcement is edited ------------------- *)
\* announcement 42 with a date in its body, with a time in its body, with
\* another title, and without any mention of an exam
A42Mar5 == Announcement(<<"4", "2">>, "C1", T_QuizAnnounced, B_Mar5)
A42NineAm == Announcement(<<"4", "2">>, "C1", T_QuizAnnounced, B_Room)
A42Midterm == Announcement(<<"4", "2">>, "C1", T_Midterm, B_QuizOnFriday)
A42Notes == Announcement(<<"4", "2">>, "C1", T_Notes, B_Empty)

ExamFeeds ==
    {<<A42Friday>>, <<A42Monday>>, <<A42Mar5>>, <<A42NineAm>>, <<A42Midterm>>, <<A42Notes>>}

\* announcement 42 is edited between two runs
EditExamAnnouncement ==
    /\ pc = "idle"
    /\ runNo >= 1
    /\ runNo < MaxRuns
    /\ portalAnns = <<A42Friday>>
    /\ \E anns \in ExamFeeds \ {portalAnns} : portalAnns' = anns
    /\ UNCHANGED <<portalAsgs, storeVars, sessVars, runVars, histVars, writers>>

ExamEditNext == RunNext(MaxRuns) \/ EditExamAnnouncement

\* one course, one announcement (id "42") that mentions a quiz, no assignment
SpecExamEdit == InitWith(<<A42Friday>>, <<>>) /\ [][ExamEditNext]_vars

(* ------------------------ two runs that overlap ----------------------- *)
\* Two processes execute run() over the same portal and the same table; no
\* call fails.  writers[w] is the state of run w: its position in run(), the
\* lists it has selected, the next item to send, the keys whose record its
\* lookups found, the keys it has delivered, and whether the other run was
\* under way when it started.
OtherRun(w) == CHOOSE v \in Writers : v # w

\* the keys of the items has_been_sent reports as sent
FoundKeys(items, rows) ==
    {DedupKey(items[i]) : i \in {j \in 1..Len(items) : HasBeenSent(rows, items[j], FALSE)}}

\* run(): login and course discovery succeed
OverlapStart(w) ==
    /\ pc = "idle"
    /\ writers[w].stage = "idle"
    /\ writers' = [writers EXCEPT ![w] =
                      [stage |-> "announcements", all |-> <<>>, anns |-> <<>>,
                       asgs |-> <<>>, exams |-> <<>>, idx |-> 0, found |-> {},
                       sent |-> <<>>,
                       overlapped |-> writers[OtherRun(w)].stage \notin {"idle", "done"}]]
    /\ UNCHANGED <<storeVars, portalVars, sessVars, runVars, histVars>>

\* _process_announcements of run w
OverlapAnnouncements(w) ==
    /\ pc = "idle"
    /\ writers[w].stage = "announcements"
    /\ LET all_announcements ==
               AnnouncementScraperScrape(portalAnns, PortalCourses(portalAnns, portalAsgs),
                                         {}, FALSE)
       IN  /\ writers' = [writers EXCEPT
                             ![w].stage = "assignments",
                             ![w].all = all_announcements,
                             ![w].anns = FilterNew(all_announcements, table, {}),
                             ![w].found = @ \cup FoundKeys(all_announcements, table)]
           /\ table' = FilterRows(all_announcements, table, {})
    /\ UNCHANGED <<now, call, marked, portalVars, sessVars, runVars, histVars>>

\* _process_assignments of run w
OverlapAssignments(w) ==
    /\ pc = "idle"
    /\ writers[w].stage = "assignments"
    /\ LET all_assignments ==
               AssignmentScraperScrape(portalAsgs, PortalCourses(portalAnns, portalAsgs),
                                       FALSE, {}, now)
       IN  /\ writers' = [writers EXCEPT
                             ![w].stage = "exams",
                             ![w].asgs = FilterNew(all_assignments, table, {}),
                             ![w].found = @ \cup FoundKeys(all_assignments, table)]
           /\ table' = FilterRows(all_assignments, table, {})
    /\ UNCHANGED <<now, call, marked, portalVars, sessVars, runVars, histVars>>

\* _process_exams of run w, called as run() calls it
OverlapExams(w) ==
    /\ pc = "idle"
    /\ writers[w].stage = "exams"
    /\ LET all_exams ==
               ExamDetectorScrape(ExamAnnouncements(writers[w].all, writers[w].anns))
       IN  /\ writers' = [writers EXCEPT
                             ![w].stage = "notify",
                             ![w].exams = FilterNew(all_exams, table, {}),
                             ![w].found = @ \cup FoundKeys(all_exams, table)]
           /\ table' = FilterRows(all_exams, table, {})
    /\ UNCHANGED <<now, call, marked, portalVars, sessVars, runVars, histVars>>

\* one _send_and_record of run w: the message is delivered and recorded
OverlapSendAndRecord(w) ==
    /\ pc = "idle"
    /\ writers[w].stage = "notify"
    /\ writers[w].idx < Len(SendList(writers[w].anns, writers[w].asgs, writers[w].exams))
    /\ LET item == SendList(writers[w].anns, writers[w].asgs,
                            writers[w].exams)[writers[w].idx + 1]
       IN  /\ table' = SendAndRecordRows(table, item, now, "ok", FALSE)
           /\ channel' = Deliver(channel, ItemMessage(item), "ok")
           /\ marked' = marked \cup {DedupKey(item)}
           /\ writers' = [writers EXCEPT ![w].idx = @ + 1,
                                         ![w].sent = Append(@, DedupKey(item))]
    /\ UNCHANGED <<now, call, portalVars, sessVars, pc, runNo, new_announcements,
                   new_assignments, new_exams, sendIdx, stats, result, histVars>>

\* the end of _send_notifications and of run() of run w
OverlapEnd(w) ==
    /\ pc = "idle"
    /\ writers[w].stage = "notify"
    /\ writers[w].idx = Len(SendList(writers[w].anns, writers[w].asgs, writers[w].exams))
    /\ writers' = [writers EXCEPT ![w].stage = "done"]
    /\ UNCHANGED <<storeVars, portalVars, sessVars, runVars, histVars>>

OverlapNext ==
    \/ \E w \in Writers : OverlapStart(w)
    \/ \E w \in Writers : OverlapAnnouncements(w)
    \/ \E w \in Writers : OverlapAssignments(w)
    \/ \E w \in Writers : OverlapExams(w)
    \/ \E w \in Writers : OverlapSendAndRecord(w)
    \/ \E w \in Writers : OverlapEnd(w)

SpecOverlap == InitWith(<<A42Friday>>, <<RawEssay(<<>>)>>) /\ [][OverlapNext]_vars

(* ------------------------------ properties ---------------------------- *)
\* the stored rows of an identity key
RowsOf(key) == {r \in table : r.dedup_key = key}

\* a step that delivers the notification of one item to the channel
DeliversItem ==
    /\ Len(channel') = Len(channel) + 1
    /\ channel'[Len(channel')].type = "item"

\* no request of the two scrapes of the run in progress raised
ScrapedAll ==
    /\ runLog.ann_scrape = [got |-> "response", failed |-> {}, user_failed |-> FALSE]
    /\ runLog.asg_scrape = [got |-> "response", failed |-> {}, my_failed |-> FALSE]

\* the run in progress reads the portal content the run before it read
SameContentAsBefore ==
    /\ runNo >= 2
    /\ snap.anns = prev.anns
    /\ snap.asgs = prev.asgs

\* the exam the detector derives from announcement 42
Exam42 == DetectFromAnnouncement(A42Friday)[1]

\* C1: without storage errors, has_been_sent(item) is false while no
\* mark_as_sent has been performed for the item's identity key; right after a
\* mark_as_sent of an item with the same key it is true when the fingerprints
\* are equal and false when they differ.
C1_LookupFollowsMark ==
    [][/\ (/\ call'.op = "has_been_sent"
           /\ ~call'.error
           /\ DedupKey(call'.item) \notin marked')
          => call'.ret = FALSE
       /\ (/\ call.op = "mark_as_sent"
           /\ ~call.error
           /\ call'.op = "has_been_sent"
           /\ ~call'.error
           /\ DedupKey(call'.item) = DedupKey(call.item))
          => call'.ret = (ContentHash(call'.item) = ContentHash(call.item))]_vars

\* a lookup without error answers false for a key that has been marked, with
\* a row of that key in the table: the fingerprint differs
C1_Witness ==
    /\ call.op = "has_been_sent"
    /\ ~call.error
    /\ call.ret = FALSE
    /\ DedupKey(call.item) \in marked
    /\ RowsOf(DedupKey(call.item)) # {}

\* C2 as stated: no step delivers the notification of an item whose identity
\* key and fingerprint are those of the notification delivered last for that key.
C2_NeverNotifiedAgain ==
    [][DeliversItem =>
          [key  |-> channel'[Len(channel')].key,
           hash |-> channel'[Len(channel')].hash] \notin lastSent]_vars

\* C2, amended: an item whose key and fingerprint are those of the
\* notification delivered last for that key is notified again only when its
\* lookup raised in this run or the store holds no record with that key and
\* that fingerprint.
C2_NotifiedAgainOnlyUnrecorded ==
    [][(/\ DeliversItem
        /\ [key  |-> channel'[Len(channel')].key,
            hash |-> channel'[Len(channel')].hash] \in lastSent)
          => \/ channel'[Len(channel')].key \in lookupFailed
             \/ ~\E r \in table : /\ r.dedup_key = channel'[Len(channel')].key
                                  /\ r.content_hash = channel'[Len(channel')].hash]_vars

\* the second run has filtered out an announcement that was notified before
\* and has not changed
C2_Witness ==
    /\ pc = "assignments"
    /\ runNo = 2
    /\ new_announcements = <<>>
    /\ \E i \in 1..Len(portalAnns) :
          [key |-> DedupKey(portalAnns[i]), hash |-> ContentHash(portalAnns[i])] \in lastSent

\* C3 as stated: with every call succeeding, the first run sends one
\* notification and stores one record, the second run sends nothing, the
\* third run (body edited) sends exactly one notification and overwrites the
\* stored fingerprint of the announcement.
C3_ThreeRuns ==
    (pc = "idle" /\ faults = 0) =>
        /\ runNo = 1 => Len(channel) = 1 /\ Cardinality(table) = 1
        /\ runNo = 2 => Len(channel) = 0
        /\ (runNo = 3 /\ snap.anns = <<A42Monday>>) =>
              /\ Len(channel) = 1
              /\ \A r \in RowsOf(DedupKey(A42Monday)) : r.content_hash = ContentHash(A42Monday)

\* C3, amended: with every call succeeding, the first run sends the
\* announcement, the exam derived from it and a summary, and stores two
\* records; the second run sends nothing; the third run (body edited) sends
\* exactly the announcement and overwrites its record, leaving the exam's.
C3_ThreeRunsWithExam ==
    (pc = "idle" /\ faults = 0) =>
        /\ runNo = 1 =>
              /\ channel = <<ItemMessage(A42Friday), ItemMessage(Exam42), SummaryMessage>>
              /\ table = {SentNotification(A42Friday, 1), SentNotification(Exam42, 1)}
              /\ result = "True"
        /\ runNo = 2 =>
              /\ channel = <<>>
              /\ table = {SentNotification(A42Friday, 1), SentNotification(Exam42, 1)}
              /\ result = "True"
        /\ (runNo = 3 /\ snap.anns = <<A42Monday>>) =>
              /\ channel = <<ItemMessage(A42Monday)>>
              /\ table = {SentNotification(A42Monday, 3), SentNotification(Exam42, 1)}
              /\ result = "True"

\* the third run has ended after the edit, every call having succeeded
C3_Witness ==
    /\ pc = "idle"
    /\ faults = 0
    /\ runNo = 3
    /\ snap.anns = <<A42Monday>>
    /\ channel # <<>>

\* C4: the table changes only in a step of _send_and_record whose
\* send_message returned success, and only in the row of the item sent, which
\* gets the fingerprint of that item.
C4_RecordOnlyAfterSend ==
    [][table' # table =>
          /\ pc = "notify"
          /\ call'.op = "_send_and_record"
          /\ call'.send = "ok"
          /\ channel' = Append(channel, ItemMessage(call'.item))
          /\ \A r \in (table' \ table) \cup (table \ table') :
                r.dedup_key = DedupKey(call'.item)
          /\ \A r \in table' \ table : r.content_hash = ContentHash(call'.item)]_vars

\* a record has been written after a successful send
C4_Witness ==
    /\ call.op = "_send_and_record"
    /\ call.send = "ok"
    /\ call.marked = <<TRUE>>
    /\ \E r \in RowsOf(DedupKey(call.item)) : r.sent_at = now

\* C5 as stated: an item whose send failed gets no record in that run, and
\* the next run over the same portal content, when its scrapes meet no
\* failure, selects it for sending again.
C5_RetryAfterFailedSend ==
    /\ \A key \in sendFailed : \A r \in RowsOf(key) : r.sent_at < now
    /\ (pc = "notify" /\ sendIdx = 0 /\ SameContentAsBefore /\ ScrapedAll) =>
          prev.sendFailed \subseteq
              Keys(SendList(new_announcements, new_assignments, new_exams))

\* C6: the table holds at most one row per identity key.
C6_OneRowPerKey == \A r1, r2 \in table : r1.dedup_key = r2.dedup_key => r1 = r2

\* mark_as_sent has succeeded on a key that had a row, next to another key's row
C6_Witness ==
    /\ call.op = "mark_as_sent"
    /\ call.ret
    /\ call.before # {}
    /\ Cardinality(table) >= 2

\* C7: after a successful mark_as_sent(item) on a key that had a row, the row
\* of that key has item's fingerprint and the time of the call, has_been_sent
\* is true for item and false for every item of that key with another
\* fingerprint.
C7_OverwriteOnConflict ==
    (call.op = "mark_as_sent" /\ call.ret /\ call.before # {}) =>
        /\ RowsOf(DedupKey(call.item)) # {}
        /\ \A r \in RowsOf(DedupKey(call.item)) :
              r.content_hash = ContentHash(call.item) /\ r.sent_at = call.at
        /\ HasBeenSent(table, call.item, FALSE)
        /\ \A old \in StoreItems :
              (/\ DedupKey(old) = DedupKey(call.item)
               /\ ContentHash(old) # ContentHash(call.item))
                 => ~HasBeenSent(table, old, FALSE)

\* mark_as_sent has succeeded on a key whose row had another fingerprint and
\* an earlier time
C7_Witness ==
    /\ call.op = "mark_as_sent"
    /\ call.ret
    /\ \E b \in call.before :
          b.content_hash # ContentHash(call.item) /\ b.sent_at < call.at

\* C8: a has_been_sent whose lookup raises returns false, whatever the table holds.
C8_FailOpen == (call.op = "has_been_sent" /\ call.error) => call.ret = FALSE

\* the lookup raised for an item whose record, with its fingerprint, is stored
C8_Witness ==
    /\ call.op = "has_been_sent"
    /\ call.error
    /\ \E r \in RowsOf(DedupKey(call.item)) : r.content_hash = ContentHash(call.item)

\* C9 as stated: mark_as_sent returns false exactly when its write failed,
\* then no row of the item's key is created or changed, and the next run over
\* the same portal content, when its scrapes meet no failure, selects the item
\* for notification again.
C9_RetryAfterFailedWrite ==
    /\ (call.op = "_send_and_record" /\ call.send = "ok") =>
          /\ call.marked = <<DedupKey(call.item) \notin writeFailed>>
          /\ call.marked = <<\E r \in RowsOf(DedupKey(call.item)) : r.sent_at = now>>
    /\ (pc = "notify" /\ sendIdx = 0 /\ SameContentAsBefore /\ ScrapedAll) =>
          prev.writeFailed \subseteq
              Keys(SendList(new_announcements, new_assignments, new_exams))

\* C10 as stated: _send_and_record returns True only if the message was sent
\* and mark_as_sent returned true.
C10_TrueOnlyIfRecorded ==
    (call.op = "_send_and_record" /\ call.ret) =>
        call.send = "ok" /\ call.marked = <<TRUE>>

\* the attempts before attempt k of a login script all met a transient error
TransientBefore(script, k) == \A j \in 1..(k - 1) : script[j] \in {"connection", "timeout"}

\* C11: login() makes at most 3 attempts; after three attempts that failed
\* with a connection error or a timeout it raises the authentication error
\* with the last of these errors as its cause and leaves an unauthenticated
\* session unauthenticated; at the first attempt that succeeds it returns
\* true, authenticated, without a further attempt.
C11_LoginRetryBound ==
    call.op = "login" =>
        /\ call.attempts \in 1..3
        /\ TransientBefore(call.script, 4) =>
              /\ call.attempts = 3
              /\ call.ret = "SakaiAuthError"
              /\ call.cause = <<AttemptLoginResult(call.script[3])>>
              /\ ~call.before.authenticated => ~session.authenticated
        /\ \A k \in 1..3 :
              (call.script[k] = "ok" /\ TransientBefore(call.script, k)) =>
                  /\ call.attempts = k
                  /\ call.ret = "True"
                  /\ session.authenticated
        /\ call.ret = "True" => call.script[call.attempts] = "ok"

\* three attempts failed with transient errors on an unauthenticated session
C11_Witness ==
    /\ call.op = "login"
    /\ ~call.before.authenticated
    /\ call.attempts = 3
    /\ call.ret = "SakaiAuthError"
    /\ call.cause = <<"Timeout">>

\* C12: a login attempt that fails the verification, or whose request raises
\* a non-transient error, ends login() with the authentication error: no
\* further attempt is made and no wait follows it, whatever the attempt's number.
C12_AuthFailureTerminal ==
    call.op = "login" =>
        \A k \in 1..3 :
            (call.script[k] \in {"rejected", "http_error"} /\ TransientBefore(call.script, k)) =>
                /\ call.ret = "SakaiAuthError"
                /\ call.attempts = k
                /\ Len(call.sleeps) = k - 1
                /\ ~call.before.authenticated => ~session.authenticated

\* the second attempt, after a transient failure, failed the verification
C12_Witness ==
    /\ call.op = "login"
    /\ call.script[1] = "connection"
    /\ call.script[2] = "rejected"
    /\ call.script[3] = "ok"
    /\ call.ret = "SakaiAuthError"

\* C13: login() waits 30 seconds after a failed first attempt and 60 seconds
\* after a failed second attempt, before the next attempt; it does not wait
\* after the third attempt.
C13_BackoffDoubles ==
    call.op = "login" =>
        /\ Len(call.sleeps) = call.attempts - 1
        /\ Len(call.sleeps) >= 1 => call.sleeps[1] = 30
        /\ Len(call.sleeps) >= 2 => call.sleeps[2] = 60
        /\ Len(call.sleeps) <= 2

\* login() has waited twice and failed its third attempt with a transient error
C13_Witness ==
    /\ call.op = "login"
    /\ Len(call.sleeps) = 2
    /\ call.script[3] = "connection"

\* C14: a get of a non-login path whose response lands on the login path
\* invokes login exactly once, after marking the session unauthenticated, and
\* issues the request again exactly once when that login returns (not at all
\* when it raises, the session then staying unauthenticated); no get issues
\* its request more than twice or logs in more than once.
C14_ExpiryRelogin ==
    call.op = "get" =>
        /\ call.out.requests <= 2
        /\ call.out.logins <= 1
        /\ (call.before.authenticated /\ call.lands /\ ~call.login_path) =>
              /\ call.out.logins = 1
              /\ call.out.login = <<"True">> =>
                    call.out.requests = 2 /\ call.out.ret = "response"
              /\ call.out.login # <<"True">> =>
                    /\ call.out.requests = 1
                    /\ call.out.ret = "SakaiAuthError"
                    /\ ~session.authenticated
        /\ ~(call.before.authenticated /\ call.lands /\ ~call.login_path) =>
              call.out.logins = 0 /\ call.out.requests <= 1

\* a get met the login path, logged in again and issued its request again
C14_Witness ==
    /\ call.op = "get"
    /\ call.lands
    /\ call.out.logins = 1
    /\ call.out.requests = 2
    /\ ~call.lands_again

\* C15 as stated: when the request issued after the re-login lands on the
\* login path again, get raises an error instead of returning a response.
C15_SecondExpiryRaises ==
    (/\ call.op = "get"
     /\ call.out.requests = 2
     /\ call.lands_again)
        => call.out.ret # "response"

\* C16: every run attempts the login when it enters the session scope, and
\* a run that entered the scope has, when it is over, issued the logout
\* request and left the session cleared: not authenticated, no user id, no
\* cookie
C16_LogoutOnExit ==
    (pc = "idle" /\ runNo >= 1) =>
        /\ runLog.login \in {"True", "SakaiAuthError"}
        /\ runLog.entered => /\ runLog.logout \in {"ok", "failed"}
                             /\ session = NewSession

\* C17: a run whose logout request was issued ends with a session that is
\* not authenticated and has no user id, and with the outcome its work
\* alone decides, whether or not the logout request failed: the except
\* clause is entered only for what the work raised, and True is returned
\* exactly when the work was done
C17_LogoutFailureSwallowed ==
    (pc = "idle" /\ runLog.logout \in {"ok", "failed"}) =>
        /\ ~session.authenticated
        /\ session.user_id = <<>>
        /\ runLog.caught = (IF runLog.work = "raised" THEN 1 ELSE 0)
        /\ result = (IF runLog.work = "done" THEN "True" ELSE "False")

\* a run did its work, its logout request failed, and it returned True
C17_Witness ==
    /\ pc = "idle"
    /\ runLog.logout = "failed"
    /\ runLog.work = "done"
    /\ result = "True"

\* C18: the step that ends a run leaves True or False as the value of
\* run(); what was raised (the login failure included) is caught once: the
\* error counter grows by one, one error notification is attempted, and
\* False is returned; without an exception neither happens
C18_RunNeverRaises ==
    [][(pc' = "idle" /\ (pc # "idle" \/ runNo' # runNo)) =>
          /\ result' \in {"True", "False"}
          /\ runLog'.caught \in {0, 1}
          /\ runLog'.work = "raised" => runLog'.caught = 1
          /\ runLog'.notices = runLog'.caught
          /\ stats'.errors = (IF pc = "idle" THEN InitStats.errors ELSE stats.errors)
                                + runLog'.caught
          /\ runLog'.caught = 1 => result' = "False"]_vars

\* a run inside the session scope raised, the error notification failed as
\* well, and run() returned False
C18_Witness ==
    /\ pc = "idle"
    /\ runLog.entered
    /\ runLog.caught = 1
    /\ result = "False"
    /\ \A i \in 1..Len(channel) : channel[i].type # "error"

\* C19: a run whose login, or whose re-login after a session expiry, ended
\* in the authentication error returns False
C19_AuthErrorFatal ==
    (pc = "idle" /\ (runLog.login = "SakaiAuthError" \/ runLog.relogin = "failed"))
        => result = "False"

\* C20: the exams a run detects are those of all the announcements it
\* scraped, whether or not an announcement passed the filter
C20_ExamsFromAllAnnouncements ==
    pc = "notify" =>
        stats.exams_found = Len(ExamDetectorScrape(runLog.all_announcements))

\* the keyword groups of the exam types, the highest priority first
TypeGroups ==
    << [type |-> "midterm",
        words |-> {<<"m", "i", "d", "t", "e", "r", "m">>,
                   <<"m", "i", "d", "-", "t", "e", "r", "m">>,
                   <<"m", "i", "d", " ", "t", "e", "r", "m">>}],
       [type |-> "final",
        words |-> {<<"f", "i", "n", "a", "l">>}],
       [type |-> "quiz",
        words |-> {<<"q", "u", "i", "z">>}],
       [type |-> "practical",
        words |-> {<<"p", "r", "a", "c", "t", "i", "c", "a", "l">>,
                   <<"l", "a", "b", " ", "e", "x", "a", "m">>}],
       [type |-> "oral",
        words |-> {<<"o", "r", "a", "l">>,
                   <<"v", "i", "v", "a">>}],
       [type |-> "continuous_assessment",
        words |-> {<<"c", "o", "n", "t", "i", "n", "u", "o", "u", "s", " ", "a", "s", "s", "e", "s", "s", "m", "e", "n", "t">>,
                   <<"c", "a", " ", "t", "e", "s", "t">>}] >>

\* a word of keyword group g occurs in the text
GroupPresent(g, text) == \E w \in TypeGroups[g].words : Contains(w, text)

\* the text _detect_from_announcement looks for keywords in
FullText(announcement) == Lower(announcement.title \o <<" ">> \o announcement.content)

\* C24: the type of a detected exam is that of the first keyword group, in
\* the order midterm, final, quiz, practical, oral, continuous assessment,
\* that has a word in the lower-cased text, and "exam" when no group has one
C24_TypeByPriority ==
    (call.op = "detect" /\ call.ret # <<>>) =>
        /\ \A g \in 1..Len(TypeGroups) :
              (/\ GroupPresent(g, FullText(call.announcement))
               /\ \A h \in 1..(g - 1) : ~GroupPresent(h, FullText(call.announcement)))
                 => call.ret[1].exam_type = TypeGroups[g].type
        /\ (\A g \in 1..Len(TypeGroups) : ~GroupPresent(g, FullText(call.announcement)))
              => call.ret[1].exam_type = "exam"

\* an exam was typed "final" from a text that also holds words of
\* lower groups
C24_Witness ==
    /\ call.op = "detect"
    /\ call.ret # <<>>
    /\ call.ret[1].exam_type = "final"
    /\ \E h \in 3..Len(TypeGroups) : GroupPresent(h, FullText(call.announcement))

\* a keyword of the lexicon occurs in the lower-cased title and body
HasKeyword(announcement) ==
    \E k \in 1..Len(EXAM_KEYWORDS) : Contains(EXAM_KEYWORDS[k], FullText(announcement))

\* C25: an announcement without a keyword of the lexicon in its lower-cased
\* title and body yields no exam, one with a keyword yields at most one; the
\* exams of a scrape come from announcements with a keyword, and no two of
\* them from the same announcement id
C25_AtMostOneExam ==
    /\ call.op = "detect" =>
          /\ ~HasKeyword(call.announcement) => call.ret = <<>>
          /\ Len(call.ret) <= 1
    /\ call.op = "exam_scrape" =>
          /\ \A i, j \in 1..Len(call.ret) :
                call.ret[i].source_id = call.ret[j].source_id => i = j
          /\ \A i \in 1..Len(call.ret) :
                \E n \in 1..Len(call.announcements) :
                   /\ call.announcements[n].id = call.ret[i].source_id
                   /\ HasKeyword(call.announcements[n])

\* two announcements of one id, both with a keyword, gave one exam
C25_Witness ==
    /\ call.op = "exam_scrape"
    /\ Len(call.announcements) = 2
    /\ call.announcements[1].id = call.announcements[2].id
    /\ call.announcements[1] # call.announcements[2]
    /\ HasKeyword(call.announcements[1])
    /\ HasKeyword(call.announcements[2])
    /\ Len(call.ret) = 1

\* a date pattern matches somewhere in the text
DateMatches(text) ==
    \E i \in 1..Len(text) : DateNameMatch(text, i) # <<>> \/ DateNumMatch(text, i) # <<>>

\* a time pattern matches somewhere in the text
TimeMatches(text) ==
    \E i \in 1..Len(text) : TimeColonEnd(text, i) # 0 \/ TimeAmPmEnd(text, i) # 0

\* the location pattern matches somewhere in the text
LocationMatches(text) == \E i \in 1..Len(text) : LocationMatch(text, i) # <<>>

\* C26: an announcement with a keyword yields its exam whatever can be
\* extracted from its body: a field whose pattern matches nowhere is absent,
\* a field whose pattern matches is present, except a date that is matched
\* and is no calendar date, which is absent too
C26_MissingFieldsAbsent ==
    (call.op = "detect" /\ HasKeyword(call.announcement)) =>
        /\ Len(call.ret) = 1
        /\ ~DateMatches(call.announcement.content) => call.ret[1].exam_date = <<>>
        /\ (call.ret[1].exam_time = <<>>) = ~TimeMatches(call.announcement.content)
        /\ (call.ret[1].location = <<>>) = ~LocationMatches(call.announcement.content)

\* an exam was returned without date, time and location from a body whose
\* date is matched and cannot be parsed
C26_Witness ==
    /\ call.op = "detect"
    /\ call.ret # <<>>
    /\ DateMatches(call.announcement.content)
    /\ call.ret[1].exam_date = <<>>
    /\ call.ret[1].exam_time = <<>>
    /\ call.ret[1].location = <<>>

\* the fields the fingerprint of an item is defined over
FingerprintFields(item) ==
    CASE item.kind = "announcement" -> <<item.title, item.content>>
      [] item.kind = "assignment"   -> <<item.title, item.due_date, item.status>>
      [] item.kind = "exam"         -> <<item.title, item.exam_date, item.exam_time>>

\* the prefix of the identity key of a kind
KindPrefix(kind) ==
    CASE kind = "announcement" -> K_announcement
      [] kind = "assignment"   -> K_assignment
      [] kind = "exam"         -> K_exam

\* C29: two items of one kind with equal fingerprint fields have equal
\* fingerprints whatever their other fields are, two items that differ in
\* exactly one fingerprint field have different fingerprints, and the
\* identity key is the kind's prefix followed by the id
C29_FingerprintOfItsFields ==
    call.op = "fingerprint" =>
        /\ FingerprintFields(call.a) = FingerprintFields(call.b)
              => call.hash_a = call.hash_b
        /\ Cardinality({f \in 1..3 : f <= Len(FingerprintFields(call.a))
                                      /\ FingerprintFields(call.a)[f]
                                            # FingerprintFields(call.b)[f]}) = 1
              => call.hash_a # call.hash_b
        /\ call.key_a = KindPrefix(call.a.kind) \o call.a.id
        /\ call.key_b = KindPrefix(call.b.kind) \o call.b.id
        /\ call.a.id = call.b.id => call.key_a = call.key_b

\* two assignments with different ids and close dates, and with the same
\* title, due date and status, have the same fingerprint and different keys
C29_Witness ==
    /\ call.op = "fingerprint"
    /\ call.a.kind = "assignment"
    /\ call.a.id # call.b.id
    /\ call.a.close_date # call.b.close_date
    /\ FingerprintFields(call.a) = FingerprintFields(call.b)
    /\ call.hash_a = call.hash_b
    /\ call.key_a # call.key_b

\* C27: clear_old_records(days) without storage error deletes exactly the
\* rows sent before now minus days and returns their number, so that
\* has_been_sent answers as before for every item whose row is kept; with a
\* storage error it returns 0 and the table is as before.
C27_ClearOldRecords ==
    call.op = "clear_old_records" =>
        IF call.error
        THEN call.ret = 0 /\ table = call.before
        ELSE /\ table = {r \in call.before : ~(r.sent_at < call.at - call.days)}
             /\ call.ret = Cardinality(call.before \ table)
             /\ \A item \in StoreItems :
                   RowsOf(DedupKey(item)) # {}
                      => HasBeenSent(table, item, FALSE)
                            = HasBeenSent(call.before, item, FALSE)

\* a clear_old_records deleted a row and kept another, for which
\* has_been_sent is true
C27_Witness ==
    /\ call.op = "clear_old_records"
    /\ ~call.error
    /\ call.ret >= 1
    /\ \E item \in StoreItems : HasBeenSent(table, item, FALSE)

\* C28: the table never holds two rows of one identity key; when two
\* overlapping mark_as_sent calls for one key have returned, one of them at
\* least with success, the key has exactly one row, and it is the record of
\* a call that succeeded.
C28_ConcurrentUpserts ==
    /\ \A r1, r2 \in table : r1.dedup_key = r2.dedup_key => r1 = r2
    /\ (/\ \A w \in Writers : writers[w].stage = "done"
        /\ \A v, w \in Writers : DedupKey(writers[v].item) = DedupKey(writers[w].item)
        /\ \E w \in Writers : writers[w].ret)
          => \E w \in Writers :
                /\ writers[w].ret
                /\ table \cap {r \in table : r.dedup_key = DedupKey(writers[w].item)}
                      = {SentNotification(writers[w].item, writers[w].sent_at)}

\* two overlapping calls for one key, with different fingerprints, have both
\* succeeded, the call that built its record first having written last
C28_Witness ==
    /\ \A w \in Writers : writers[w].stage = "done" /\ writers[w].ret
    /\ DedupKey(writers["run1"].item) = DedupKey(writers["run2"].item)
    /\ ContentHash(writers["run1"].item) # ContentHash(writers["run2"].item)
    /\ writers["run1"].sent_at < writers["run2"].sent_at
    /\ \E r \in table : r = SentNotification(writers["run1"].item, writers["run1"].sent_at)

\* the introspection endpoint answered: status 200 with the session's JSON
IntrospectionAvailable(session_resp) ==
    (~session_resp.raises) /\ session_resp.status_code = 200 /\ session_resp.json

\* C22: when the introspection endpoint answers, _verify_login returns True
\* exactly when the answer carries a user id, whatever the login page says;
\* the phrases decide only when the endpoint is not available, and then a
\* failure phrase makes the result False even beside a success phrase.
C22_IntrospectionDecides ==
    call.op = "verify_login" =>
        /\ IntrospectionAvailable(call.session_resp)
              => (call.ret <=> call.session_resp.userId # <<>>)
        /\ (~IntrospectionAvailable(call.session_resp)
              /\ HasIndicator(FAILURE_INDICATORS, call.response_text))
              => ~call.ret

\* C30: no step delivers the notification of an assignment that the portal
\* reports in this run exactly as in the run before (same id, title, due
\* time, close time and status text) and that the run before has notified;
\* stated for behaviours in which no external call has failed.
C30_UnchangedAssignmentOnce ==
    [][(/\ DeliversItem
        /\ faults' = 0
        /\ runNo >= 2
        /\ \E i \in 1..Len(snap.asgs) :
              /\ \E j \in 1..Len(prev.asgs) : prev.asgs[j] = snap.asgs[i]
              /\ channel'[Len(channel')].key
                    = DedupKey(ParseApiAssignment(snap.asgs[i], now)))
          => channel'[Len(channel')].key \notin prev.sent]_vars

\* the assignment of a portal entry is in the scope of what the scrape of the
\* run collected: the user endpoint answered, or the site endpoint of its course
AssignmentRequestOk(raw) ==
    ~runLog.asg_scrape.my_failed \/ raw.context \notin runLog.asg_scrape.failed

\* the requests of the two scrapes of the run that raised
ScrapeFailures ==
    Cardinality(runLog.ann_scrape.failed) + Raised(runLog.ann_scrape.user_failed)
        + Raised(runLog.asg_scrape.my_failed) + Cardinality(runLog.asg_scrape.failed)

\* C23: when requests of a scrape raise for some courses, the run goes on and,
\* nothing else failing, returns True; every announcement of a course whose site request did not
\* raise is collected, and every assignment whose endpoint answered; each of
\* them that the store does not report as sent is selected; and every item
\* selected is delivered to the channel unless its own send failed.
C23_CourseFailuresTolerated ==
    /\ (pc \in {"assignments", "exams", "notify"} /\ runLog.ann_scrape.got = "response") =>
          \A i \in 1..Len(portalAnns) :
             portalAnns[i].course_code \notin runLog.ann_scrape.failed =>
                /\ portalAnns[i] \in Range(runLog.all_announcements)
                /\ pc = "assignments" =>
                      \/ portalAnns[i] \in Range(new_announcements)
                      \/ HasBeenSent(table, portalAnns[i], FALSE)
    /\ (pc = "exams" /\ runLog.asg_scrape.got = "response") =>
          \A i \in 1..Len(portalAsgs) :
             AssignmentRequestOk(portalAsgs[i]) =>
                \/ ParseApiAssignment(portalAsgs[i], now) \in Range(new_assignments)
                \/ HasBeenSent(table, ParseApiAssignment(portalAsgs[i], now), FALSE)
    /\ (pc = "notify"
          /\ sendIdx = Len(SendList(new_announcements, new_assignments, new_exams))) =>
          \A item \in Range(new_announcements) \cup Range(new_assignments) :
             \/ DedupKey(item) \in sendFailed
             \/ ItemMessage(item) \in Range(channel)
    /\ (pc = "idle" /\ runLog.asg_scrape.got # "none" /\ faults = ScrapeFailures) =>
          result = "True"

\* the site request of course C1 and the user-level request have raised, so
\* that announcement 7 is not collected; the run has notified announcement 8
\* of course C2 and both assignments, and has returned True
C23_Witness ==
    /\ pc = "idle"
    /\ result = "True"
    /\ runLog.ann_scrape = [got |-> "response", failed |-> {"C1"}, user_failed |-> TRUE]
    /\ N7 \notin Range(runLog.all_announcements)
    /\ ItemMessage(N8) \in Range(channel)
    /\ ItemMessage(ParseApiAssignment(RawReport, now)) \in Range(channel)
    /\ ItemMessage(ParseApiAssignment(RawEssay(<<>>), now)) \in Range(channel)

\* the identity key of the exam derived from an announcement: "exam:ann-<id>"
ExamKeyOf(announcement) == K_exam \o K_ann \o announcement.id

\* every exam the run has selected comes from an announcement of the portal,
\* whose id X gives it the id "ann-X" and the key "exam:ann-X"
ExamsNamedAfterAnnouncements(exams) ==
    \A i \in 1..Len(exams) :
       \E j \in 1..Len(portalAnns) :
          /\ exams[i].source_id = portalAnns[j].id
          /\ exams[i].id = K_ann \o portalAnns[j].id
          /\ DedupKey(exams[i]) = ExamKeyOf(portalAnns[j])

\* a step of a run over the announcements the run before it read delivers the
\* notification of an exam of these announcements that the run before has
\* sent and whose record, with its fingerprint, is stored
DeliversRecordedExamAgain ==
    /\ DeliversItem
    /\ runNo >= 2
    /\ snap.anns = prev.anns
    /\ channel'[Len(channel')].key \in prev.sent
    /\ \E j \in 1..Len(snap.anns) : channel'[Len(channel')].key = ExamKeyOf(snap.anns[j])
    /\ \E r \in RowsOf(channel'[Len(channel')].key) :
          r.content_hash = channel'[Len(channel')].hash

\* C21 as stated: the exams are named after their announcement's id, and no
\* run over unchanged announcements sends again an exam that was sent and
\* recorded.
C21_ExamNeverSentAgain ==
    [][ExamsNamedAfterAnnouncements(new_exams') /\ ~DeliversRecordedExamAgain]_vars

\* C21, amended: the exams are named after their announcement's id, and a run
\* over unchanged announcements sends again an exam that was sent and
\* recorded only when the lookup of the exam has raised in that run.
C21_ExamSentAgainOnlyAfterLookupError ==
    [][/\ ExamsNamedAfterAnnouncements(new_exams')
       /\ DeliversRecordedExamAgain => channel'[Len(channel')].key \in lookupFailed]_vars

\* the second run, over unchanged announcements, has selected the announcement
\* again (its lookup raised), has detected its exam again, and has left the
\* exam out because the exam was sent by the first run and has its record
C21_Witness ==
    /\ pc = "notify"
    /\ runNo = 2
    /\ snap.anns = prev.anns
    /\ new_announcements # <<>>
    /\ new_exams = <<>>
    /\ \E j \in 1..Len(new_announcements) :
          /\ DetectFromAnnouncement(new_announcements[j]) # <<>>
          /\ ExamKeyOf(new_announcements[j]) \in prev.sent
          /\ \E r \in RowsOf(ExamKeyOf(new_announcements[j])) :
                r.content_hash = ContentHash(DetectFromAnnouncement(new_announcements[j])[1])

\* C33: the steps of the filtering phase of a run (the lookups of
\* _process_announcements, _process_assignments and _process_exams, whether
\* they succeed or raise) leave the table as they found it, and a step of a
\* run that changes the table is a _send_and_record whose mark_as_sent wrote.
C33_LookupsLeaveStore ==
    [][/\ pc \in {"announcements", "assignments", "exams"} => table' = table
       /\ table' # table => (call'.op = "_send_and_record" /\ call'.marked = <<TRUE>>)]_vars

\* the filtering phase of the second run is over: it has looked up items
\* that have a record, the lookup of one of them raising
C33_Witness ==
    /\ pc = "notify"
    /\ sendIdx = 0
    /\ runNo = 2
    /\ \E key \in lookupFailed : RowsOf(key) # {}
    /\ \E r \in table : r.dedup_key \notin lookupFailed

\* C35: a _send_and_record step, whatever its send does, leaves the run in
\* its sending loop, handles the next item of the order announcements,
\* assignments, exams, and adds one to the error counter exactly when the
\* send raised; the run ends only after every selected item was handled, and
\* returns True when its last step (summary, logout) meets no failure.
C35_SendFailureDoesNotStop ==
    [][/\ (pc = "notify" /\ sendIdx' = sendIdx + 1) =>
             /\ pc' = "notify"
             /\ call'.op = "_send_and_record"
             /\ call'.item = SendList(new_announcements, new_assignments,
                                      new_exams)[sendIdx']
             /\ stats'.errors = stats.errors + (IF call'.send = "raise" THEN 1 ELSE 0)
       /\ (pc = "notify" /\ pc' = "idle") =>
             /\ sendIdx = Len(SendList(new_announcements, new_assignments, new_exams))
             /\ faults' = faults => result' = "True"]_vars

\* a run has returned True although the send of its first item raised and
\* the send of its second item returned false; the third item was delivered
C35_Witness ==
    /\ pc = "idle"
    /\ result = "True"
    /\ stats.errors = 1
    /\ Cardinality(sendFailed) = 2
    /\ Len(SendList(new_announcements, new_assignments, new_exams)) = 3
    /\ DedupKey(SendList(new_announcements, new_assignments, new_exams)[1]) \in sendFailed
    /\ DedupKey(SendList(new_announcements, new_assignments, new_exams)[2]) \in sendFailed
    /\ \E i \in 1..Len(channel) :
          channel[i] = ItemMessage(SendList(new_announcements, new_assignments,
                                            new_exams)[3])

\* the number of item messages the channel received in the run
ItemsDelivered == Cardinality({i \in 1..Len(channel) : channel[i].type = "item"})

\* C36: during and after a run, notifications_sent is the number of item
\* messages whose send_message returned true in the run (summary and error
\* messages are not counted), and it never exceeds the number of items
\* handled so far, hence the number of items the filters selected.
C36_SentCounter ==
    /\ stats.notifications_sent = ItemsDelivered
    /\ pc \in {"notify", "idle"} =>
          (stats.notifications_sent > 0 =>
              /\ stats.notifications_sent <= sendIdx
              /\ sendIdx <= Len(SendList(new_announcements, new_assignments, new_exams)))

\* a run has ended in which three items were selected, two were delivered,
\* one send failed, and the summary message was delivered too
C36_Witness ==
    /\ pc = "idle"
    /\ Len(SendList(new_announcements, new_assignments, new_exams)) = 3
    /\ stats.notifications_sent = 2
    /\ Len(channel) = 3
    /\ channel[3] = SummaryMessage

\* a run that ends because course discovery gave no courses
EndsWithoutCourses == pc = "idle" /\ pc' = "idle" /\ runNo' = runNo + 1 /\ runLog'.work = "no_courses"

\* C37: a run whose course discovery yields no courses returns False, sends
\* no message at all, leaves the store as it was, and logs its session out:
\* the logout request is issued and the session state and cookies are cleared.
C37_NoCoursesLoggedOut ==
    [][EndsWithoutCourses =>
          /\ result' = "False"
          /\ channel' = <<>>
          /\ stats'.errors = 0
          /\ table' = table
          /\ runLog'.logout \in {"ok", "failed"}
          /\ session' = [authenticated |-> FALSE, user_id |-> <<>>, cookies |-> FALSE]]_vars

\* the same run without the requirement on the logout: False is returned,
\* nothing is sent, the store is unchanged and the flag is down
NoCoursesQuiet ==
    [][EndsWithoutCourses =>
          /\ result' = "False"
          /\ channel' = <<>>
          /\ stats'.errors = 0
          /\ table' = table
          /\ ~session'.authenticated]_vars

\* no two members of the list have the same id
DistinctIds(items) ==
    \A i, j \in 1..Len(items) : items[i].id = items[j].id => i = j

\* every member of the list is the first of `raw` with its id
FirstKept(items, raw) ==
    \A i \in 1..Len(items) :
        \E k \in 1..Len(raw) :
            /\ raw[k] = items[i]
            /\ \A j \in 1..(k - 1) : raw[j].id # items[i].id

\* what the requests of the announcement scrape of the run returned, before
\* the pass over seen ids: the site feeds, then the user-level feed
RawAnnouncements ==
    CourseAnnouncements(portalAnns, PortalCourses(portalAnns, portalAsgs),
                        runLog.ann_scrape.failed)
       \o UserAnnouncements(portalAnns, PortalCourses(portalAnns, portalAsgs),
                            runLog.ann_scrape.user_failed)

\* C34: in a run the channel receives at most one item message per identity
\* key; the scraped announcements, the selected announcements, assignments
\* and exams have pairwise distinct ids, and of an announcement reported by
\* the site feed and by the user-level feed the first occurrence is kept.
C34_OnePerKey ==
    /\ \A i, j \in 1..Len(channel) :
          (channel[i].type = "item" /\ channel[j].type = "item"
             /\ channel[i].key = channel[j].key) => i = j
    /\ DistinctIds(runLog.all_announcements)
    /\ DistinctIds(new_announcements)
    /\ DistinctIds(new_assignments)
    /\ DistinctIds(new_exams)
    /\ (pc # "idle" /\ runLog.ann_scrape.got = "response")
          => FirstKept(runLog.all_announcements, RawAnnouncements)

\* the announcement was reported by its site feed and by the user-level
\* feed, and the run delivered it, the assignment and the exam once each
C34_Witness ==
    /\ pc = "notify"
    /\ sendIdx = 3
    /\ runLog.ann_scrape = [got |-> "response", failed |-> {}, user_failed |-> FALSE]
    /\ Len(RawAnnouncements) = 2
    /\ RawAnnouncements[1].id = RawAnnouncements[2].id
    /\ Len(runLog.all_announcements) = 1
    /\ ItemsDelivered = 3

\* the title, the extracted exam date or the extracted exam time of the two
\* versions of an announcement differ
ExamFieldsChanged(a, b) ==
    \/ a.title # b.title
    \/ ExtractExamDate(a.content) # ExtractExamDate(b.content)
    \/ ExtractExamTime(a.content) # ExtractExamTime(b.content)

\* b, read by the run before, gave an exam whose record (with its
\* fingerprint) is stored, and a is its edited version, read by this run
EditedAfterRecord(a, b) ==
    /\ a \in Range(runLog.all_announcements)
    /\ b \in Range(prev.anns)
    /\ a.id = b.id
    /\ a # b
    /\ DetectFromAnnouncement(b) # <<>>
    /\ \E r \in RowsOf(ExamKeyOf(b)) :
          r.content_hash = ContentHash(DetectFromAnnouncement(b)[1])

\* the run selects, after this step, an exam with the key of announcement a's exam
SelectsExamOf(a) == \E i \in 1..Len(new_exams') : DedupKey(new_exams'[i]) = ExamKeyOf(a)

\* a step that delivers an exam's notification and records it leaves one row
\* for the exam's key, with the fingerprint that was sent
ExamRecordOverwritten ==
    (/\ DeliversItem
     /\ call'.op = "_send_and_record"
     /\ call'.item.kind = "exam"
     /\ call'.marked = <<TRUE>>)
       => \E r \in table' :
             /\ r.dedup_key = DedupKey(call'.item)
             /\ r.content_hash = ContentHash(call'.item)
             /\ \A q \in table' : q.dedup_key = r.dedup_key => q = r

\* C31: after the edit of an announcement whose exam is recorded, the next
\* run selects the exam for notification, under the same key, if and only if
\* the title, the extracted date or the extracted time changed; a delivered
\* and recorded exam notification overwrites the record.
C31_ExamAgainIffFieldsChanged ==
    [][/\ (pc = "exams" /\ pc' = "notify") =>
             \A a \in Range(runLog.all_announcements), b \in Range(prev.anns) :
                EditedAfterRecord(a, b) => (SelectsExamOf(a) <=> ExamFieldsChanged(a, b))
       /\ ExamRecordOverwritten]_vars

\* C31, amended: the exam is selected again if and only if the edited
\* announcement still mentions an exam and either one of the three fields
\* changed or the lookup of the exam raised in this run.
C31_ExamAgainIffChangedOrLookupError ==
    [][/\ (pc = "exams" /\ pc' = "notify") =>
             \A a \in Range(runLog.all_announcements), b \in Range(prev.anns) :
                EditedAfterRecord(a, b) =>
                   (SelectsExamOf(a) <=>
                       /\ DetectFromAnnouncement(a) # <<>>
                       /\ \/ ExamFieldsChanged(a, b)
                          \/ ExamKeyOf(a) \in lookupFailed')
       /\ ExamRecordOverwritten]_vars

\* the body of the announcement was edited so that the extracted date
\* changed; the second run has sent the exam again and its one record now
\* holds the fingerprint of the edited exam
C31_Witness ==
    /\ pc = "idle"
    /\ runNo = 2
    /\ lookupFailed = {}
    /\ \E a \in Range(runLog.all_announcements), b \in Range(prev.anns) :
          /\ a.id = b.id
          /\ a.title = b.title
          /\ ExtractExamDate(a.content) # ExtractExamDate(b.content)
          /\ ExamKeyOf(b) \in prev.sent
          /\ ExamKeyOf(b) \notin prev.writeFailed
          /\ \E i \in 1..Len(channel) :
                channel[i] = ItemMessage(DetectFromAnnouncement(a)[1])
          /\ \A r \in RowsOf(ExamKeyOf(a)) :
                r.content_hash = ContentHash(DetectFromAnnouncement(a)[1])
          /\ Cardinality(RowsOf(ExamKeyOf(a))) = 1

\* C32: the flag is down in a new session; login() raises it exactly when an
\* attempt's verification succeeds and never lowers it; get() on a session
\* whose flag is down raises the authentication error, issues no request and
\* starts no login; get() on an authenticated session lowers the flag exactly
\* when it detects the expiry and the re-login fails; logout() leaves it down.
C32_AuthenticatedFlag ==
    /\ call = NoCall => ~session.authenticated
    /\ call.op = "login" =>
          (session.authenticated <=> (call.ret = "True" \/ call.before.authenticated))
    /\ call.op = "get" =>
          /\ ~call.before.authenticated =>
                /\ call.out.ret = "SakaiAuthError"
                /\ call.out.requests = 0
                /\ call.out.logins = 0
                /\ session = call.before
          /\ call.before.authenticated =>
                (session.authenticated <=>
                    ~(call.lands /\ ~call.login_path /\ call.out.login # <<"True">>))
    /\ call.op = "logout" => ~session.authenticated

\* get() was called on a session whose re-login had failed: the flag was
\* down, no request was issued and the authentication error was raised
C32_Witness ==
    /\ call.op = "get"
    /\ ~call.before.authenticated
    /\ call.before.user_id = <<"u">>
    /\ call.out.requests = 0
    /\ call.out.ret = "SakaiAuthError"
    /\ ~session.authenticated

\* the number of item messages with the key that the channel has received
TimesDelivered(key) ==
    Cardinality({i \in 1..Len(channel) : channel[i].type = "item" /\ channel[i].key = key})

\* the keys of the item messages the channel has received
DeliveredKeys == {channel[i].key : i \in 1..Len(channel)}

====
